---------------------------- MODULE Spec2Model ----------------------------
(***************************************************************************)
(* A model of the api-gateway's routing and resilience core: the service   *)
(* registry, the round-robin load balancer, the per-service circuit        *)
(* breaker (sony/gobreaker as configured by BreakerManager.GetBreaker),    *)
(* the proxy handler and the token-bucket rate limiter.                    *)
(*                                                                         *)
(* The breaker's clock `now` counts ticks of half a minute.  The rate       *)
(* limiter's clock `wall` counts finer ticks, TicksPerSec to the second,   *)
(* so that its time.Now().Unix() is wall \div TicksPerSec.                 *)
(***************************************************************************)
EXTENDS Integers, Sequences, FiniteSets, TLC

(***************************************************************************)
(* Bounds of the model.                                                    *)
(***************************************************************************)
\* Service objects the registry ever allocates (Register calls, startup included).
MaxObjs == 3
\* RoundRobin calls made by the load balancer's callers.
MaxSelects == 7
\* Proxied requests started.
MaxCalls == 6
\* The last tick of the clock.
MaxTime == 5
\* The ticks within which forwardRequest returns: reading the request body
\* (the server's read timeout) and the outbound call (its 30 s client timeout).
MaxFlight == 2
\* The configured circuit-breaker threshold (CIRCUIT_BREAKER_THRESHOLD, default 5)
\* and open-state timeout (CIRCUIT_BREAKER_TIMEOUT, default 30 s), the latter in ticks.
Threshold == 2
Timeout == 1

\* gobreaker.Settings of GetBreaker: MaxRequests, and Interval (one minute) in ticks.
MaxRequests == 3
Interval == 2

\* The configured rate limit: RATE_LIMIT_REQUESTS (default 100) requests per
\* RATE_LIMIT_WINDOW (default 60) seconds.
Requests == 3
Window == 2
\* Ticks of the limiter's clock in one second, and the last of its ticks.
TicksPerSec == 2
MaxWall == 9
\* Headers of one inbound request and of one backend response.
MaxHeaders == 2
\* Requests in service at once when the server is told to stop.
MaxInflight == 2
\* Calls of GetBreaker by concurrent goroutines.
MaxGets == 4
\* Requests that reach the rate limiter.
MaxReqs == 4
\* Requests of a client that sends them one after the other.
MaxSeqReqs == 7
\* Redis commands of the limiter that fail.
MaxFaults == 1

\* The service names and instance lists used as inputs.
ServiceNames == {"users", "orders"}
UrlLists == {<< >>, <<"a", "b">>, <<"a", "b", "c">>}
HealthPaths == {"/health"}
\* The client addresses that reach the rate limiter.
ClientIPs == {"10.0.0.1"}

VARIABLES
    heap,       \* the Service objects allocated so far; a *Service is an index
    services,   \* Registry.services: name -> *Service (the map's keys are its domain)
    listed,     \* the slice a caller of List holds, and what it showed when returned
    counters,   \* LoadBalancer.counters: name -> int (the map's keys are its domain)
    rrLog,      \* history: per name, the current run of RoundRobin calls on one list
    breakers,   \* BreakerManager.breakers: name -> the breaker's state
    now,        \* the clock, in ticks
    pc,         \* per proxied request in progress: where ProxyRequest stands
    loc,        \* per proxied request in progress: ProxyRequest's local variables
    calls,      \* history: the number of proxied requests started
    brHist,     \* history: per service, what the breaker's callers observed
    ev,         \* history: the last step a proxied request took
    store,      \* the Redis hashes ratelimit:<ip>: ip -> bucket
    wall,       \* the rate limiter's clock, in ticks of 1/TicksPerSec s
    rlPc,       \* per request in the rate limiter: where the handler stands
    rlLoc,      \* per request in the rate limiter: the handler's local variables
    rlFaults,   \* history: the number of the limiter's Redis commands that failed
    rlReqs,     \* history: the number of requests that reached the limiter
    rlBurst,    \* history: per ip, the sequential requests since its bucket was
                \* created, followed for one refill period
    rlAdmittedOn, \* history: per ip, the bucket versions that admitted requests had read
    rlSeen,     \* history: per ip, the tick at which a request of its last arrived
                \* or was decided (-1: none)
    rlEv,       \* history: the request the limiter has just decided, or the buckets
                \* Redis has just forgotten, if that was the last step
    fwdPc,      \* where the forwarding of one request stands
    inReq,      \* the inbound request (c.Request) being forwarded
    outReq,     \* the outbound request forwardRequest has built
    backResp,   \* the backend's response (ProxyResponse)
    cliResp,    \* the response written to the client
    plPc,       \* where the router stands with the request it is serving
    plReq,      \* the request the router is serving
    plIdx,      \* gin's c.index: the position in the request's handler chain
    plTrace,    \* history: the stages entered for the request, with what each did
    plResp,     \* the response written for the request
    plAfterPanic, \* history: an earlier request ended in a panic
    cxPc,       \* where one forwarded call stands: idle, inflight or done
    cxElapsed,  \* seconds since client.Do was called
    cxClient,   \* the inbound client's connection: connected or gone
    cxGoneAt,   \* history: the second of the call in which the client disconnected
    cxEnd,      \* how the forwarded call ended
    sdPhase,    \* the server: serving, draining (Shutdown running) or stopped
    sdInflight, \* the requests being served
    sdGrace,    \* seconds since Shutdown was called
    sdHow,      \* how Shutdown ended
    sdLate,     \* history: a request was accepted after the signal
    bmMap,      \* BreakerManager.breakers: name -> the breaker instance stored
    bmMade,     \* history: the breaker instances constructed, each with its name
    bmPc,       \* where each caller of GetBreaker stands
    bmArg,      \* the name each caller passed
    bmGot,      \* history: what GetBreaker returned: <<name, instance, return taken>>
    bmCalls,    \* the calls of GetBreaker made so far
    lsPc,       \* where the ListServices handler stands: idle, encoding or done
    lsTodo,     \* the entries of the listed slice the handler has yet to encode
    lsOut,      \* the response being written: per entry encoded, the fields read
    lsViews,    \* history: what the registry has held since the handler called List
    sqLog,      \* history: the ticks at which the sequential client was admitted
    sqLast,     \* history: the limiter's answer to the sequential client's last
                \* request, and its answer to the one before (both histories
                \* are kept as long as no Redis command has failed)
    sqReqs      \* history: the number of requests the sequential client has sent

regVars == <<heap, services, listed>>
lbVars == <<counters, rrLog>>
brVars == <<breakers, brHist>>
pxVars == <<pc, loc, calls, ev>>
rlVars == <<store, wall, rlPc, rlLoc, rlFaults, rlReqs, rlBurst, rlAdmittedOn, rlSeen, rlEv>>
fwVars == <<fwdPc, inReq, outReq, backResp, cliResp>>
plVars == <<plPc, plReq, plIdx, plTrace, plResp, plAfterPanic>>
cxVars == <<cxPc, cxElapsed, cxClient, cxGoneAt, cxEnd>>
sdVars == <<sdPhase, sdInflight, sdGrace, sdHow, sdLate>>
bmVars == <<bmMap, bmMade, bmPc, bmArg, bmGot, bmCalls>>
lsVars == <<lsPc, lsTodo, lsOut, lsViews>>
sqVars == <<sqLog, sqLast, sqReqs>>
vars == <<regVars, lbVars, brVars, pxVars, now, rlVars, fwVars, plVars, cxVars, sdVars, bmVars, lsVars, sqVars>>

(***************************************************************************)
(* Go maps: a function whose domain is the set of keys present.            *)
(***************************************************************************)
EmptyMap == [k \in {} |-> 0]

MapPut(m, k, v) == [x \in (DOMAIN m) \cup {k} |-> IF x = k THEN v ELSE m[x]]

MapDelete(m, k) == [x \in (DOMAIN m) \ {k} |-> m[x]]

\* m[k] of a map[string]int: the zero value when the key is absent.
MapGetInt(m, k) == IF k \in DOMAIN m THEN m[k] ELSE 0

(***************************************************************************)
(* Service registry.                                                       *)
(***************************************************************************)
Service(name, urls, healthURL, active) ==
    [Name |-> name, URLs |-> urls, HealthURL |-> healthURL, Active |-> active]

\* A slip Register could make: an entry that exists keeps its active flag.
RegisterResultKeepsFlag(h, svcs, name, urls, healthURL) ==
    LET active == IF name \in DOMAIN svcs THEN h[svcs[name]].Active ELSE TRUE
    IN [heap |-> Append(h, Service(name, urls, healthURL, active)),
        services |-> MapPut(svcs, name, Len(h) + 1)]

\* Registry.Register: a fresh Service object replaces whatever the name held.
RegisterResult(h, svcs, name, urls, healthURL) ==
    [heap |-> Append(h, Service(name, urls, healthURL, TRUE)),
     services |-> MapPut(svcs, name, Len(h) + 1)]

\* A slip Unregister could make: the map is cleared before the name is looked
\* up.
UnregisterResultCleared(svcs, name) ==
    IF name \notin DOMAIN svcs
    THEN [err |-> "service not found", services |-> EmptyMap]
    ELSE [err |-> "", services |-> MapDelete(svcs, name)]

\* Registry.Unregister
UnregisterResult(svcs, name) ==
    IF name \notin DOMAIN svcs
    THEN [err |-> "service not found", services |-> svcs]
    ELSE [err |-> "", services |-> MapDelete(svcs, name)]

\* A slip Get could make: the active flag is not looked at.
GetWhateverActive(h, svcs, name) ==
    IF name \notin DOMAIN svcs
    THEN [svc |-> 0, err |-> "service not found"]
    ELSE [svc |-> svcs[name], err |-> ""]

\* Registry.Get: the pointer stored under the name, or an error and nil (0).
Get(h, svcs, name) ==
    IF name \notin DOMAIN svcs
    THEN [svc |-> 0, err |-> "service not found"]
    ELSE IF ~h[svcs[name]].Active
         THEN [svc |-> 0, err |-> "service is inactive"]
         ELSE [svc |-> svcs[name], err |-> ""]

\* Registry.SetActive: the flag of the stored object is written in place.
SetActiveResult(h, svcs, name, active) ==
    IF name \notin DOMAIN svcs
    THEN [err |-> "service not found", heap |-> h]
    ELSE [err |-> "", heap |-> [h EXCEPT ![svcs[name]].Active = active]]

(***************************************************************************)
(* Load balancer.                                                          *)
(***************************************************************************)
\* A slip RoundRobin could make: the cursor is not advanced.
RoundRobinStuck(ctrs, svc) ==
    IF Len(svc.URLs) = 0
    THEN [url |-> "", err |-> "no URLs available for service", counters |-> ctrs]
    ELSE LET counter == MapGetInt(ctrs, svc.Name)
         IN [url |-> svc.URLs[(counter % Len(svc.URLs)) + 1], err |-> "",
             counters |-> MapPut(ctrs, svc.Name, counter % Len(svc.URLs))]

\* LoadBalancer.RoundRobin, the whole critical section under lb.mu.
RoundRobin(ctrs, svc) ==
    IF Len(svc.URLs) = 0
    THEN [url |-> "", err |-> "no URLs available for service", counters |-> ctrs]
    ELSE LET counter == MapGetInt(ctrs, svc.Name)
         IN [url |-> svc.URLs[(counter % Len(svc.URLs)) + 1], err |-> "",
             counters |-> MapPut(ctrs, svc.Name, (counter + 1) % Len(svc.URLs))]

\* History of the selections: a run is the calls made for one name on one
\* instance list; a call with another list starts a new run.
NoRun == [urls |-> << >>, start |-> 0, picks |-> << >>]

LogPick(log, svc, counterBefore, url) ==
    LET old == IF svc.Name \in DOMAIN log THEN log[svc.Name] ELSE NoRun
        new == IF old.urls = svc.URLs /\ Len(old.picks) > 0
               THEN [old EXCEPT !.picks = Append(@, url)]
               ELSE [urls |-> svc.URLs, start |-> counterBefore, picks |-> <<url>>]
    IN MapPut(log, svc.Name, new)

TotalPicks(log) ==
    LET RECURSIVE Sum(_)
        Sum(S) == IF S = {} THEN 0
                  ELSE LET n == CHOOSE x \in S : TRUE
                       IN Len(log[n].picks) + Sum(S \ {n})
    IN Sum(DOMAIN log)

(***************************************************************************)
(* Circuit breaker: gobreaker.CircuitBreaker with the Settings that        *)
(* BreakerManager.GetBreaker passes (MaxRequests 3, Interval one minute,   *)
(* Timeout and the ReadyToTrip threshold from the configuration).  The     *)
(* zero time.Time is 0; the clock starts at 1.  Of gobreaker.Counts only   *)
(* the fields some decision reads are kept (the totals are never read).    *)
(***************************************************************************)
ClearCounts == [Requests |-> 0, ConsecutiveSuccesses |-> 0, ConsecutiveFailures |-> 0]

\* A slip ReadyToTrip could make: the threshold is tested with > for >=.
ReadyToTripLate(counts) == counts.ConsecutiveFailures > Threshold

\* Settings.ReadyToTrip
ReadyToTrip(counts) == counts.ConsecutiveFailures >= Threshold

\* CircuitBreaker.toNewGeneration
toNewGeneration(cb, t) ==
    [cb EXCEPT !.generation = @ + 1,
               !.counts = ClearCounts,
               !.expiry = CASE cb.state = "closed" -> t + Interval
                            [] cb.state = "open" -> t + Timeout
                            [] OTHER -> 0]

\* CircuitBreaker.setState
setState(cb, state, t) ==
    IF cb.state = state THEN cb ELSE toNewGeneration([cb EXCEPT !.state = state], t)

\* A slip currentState could make: Open is left one tick early.
currentStateEarly(cb, t) ==
    CASE cb.state = "closed" ->
             IF cb.expiry # 0 /\ cb.expiry < t THEN toNewGeneration(cb, t) ELSE cb
      [] cb.state = "open" ->
             IF cb.expiry < t + 2 THEN setState(cb, "half-open", t) ELSE cb
      [] OTHER -> cb

\* CircuitBreaker.currentState: the state after the expiries that time t brings.
currentState(cb, t) ==
    CASE cb.state = "closed" ->
             IF cb.expiry # 0 /\ cb.expiry < t THEN toNewGeneration(cb, t) ELSE cb
      [] cb.state = "open" ->
             IF cb.expiry < t THEN setState(cb, "half-open", t) ELSE cb
      [] OTHER -> cb

\* A slip beforeRequest could make: the trial cap is tested with > for >=.
beforeRequestOffByOne(cb, t) ==
    LET c == currentState(cb, t)
    IN IF c.state = "open"
       THEN [cb |-> c, generation |-> c.generation, err |-> "circuit breaker is open"]
       ELSE IF c.state = "half-open" /\ c.counts.Requests > MaxRequests
            THEN [cb |-> c, generation |-> c.generation, err |-> "too many requests"]
            ELSE [cb |-> [c EXCEPT !.counts.Requests = @ + 1],
                  generation |-> c.generation, err |-> ""]

\* CircuitBreaker.beforeRequest: the admission decision of Execute.
beforeRequest(cb, t) ==
    LET c == currentState(cb, t)
    IN IF c.state = "open"
       THEN [cb |-> c, generation |-> c.generation, err |-> "circuit breaker is open"]
       ELSE IF c.state = "half-open" /\ c.counts.Requests >= MaxRequests
            THEN [cb |-> c, generation |-> c.generation, err |-> "too many requests"]
            ELSE [cb |-> [c EXCEPT !.counts.Requests = @ + 1],
                  generation |-> c.generation, err |-> ""]

\* A slip onSuccess could make: the first successful trial closes the breaker.
onSuccessFirst(cb, state, t) ==
    LET c == [cb EXCEPT !.counts.ConsecutiveSuccesses = @ + 1,
                        !.counts.ConsecutiveFailures = 0]
    IN CASE state = "closed" -> c
         [] state = "half-open" -> setState(c, "closed", t)
         [] OTHER -> cb

\* CircuitBreaker.onSuccess
onSuccess(cb, state, t) ==
    LET c == [cb EXCEPT !.counts.ConsecutiveSuccesses = @ + 1,
                        !.counts.ConsecutiveFailures = 0]
    IN CASE state = "closed" -> c
         [] state = "half-open" ->
                IF c.counts.ConsecutiveSuccesses >= MaxRequests
                THEN setState(c, "closed", t)
                ELSE c
         [] OTHER -> cb

\* A slip onFailure could make: a failed trial is counted like a failure in Closed.
onFailureCounted(cb, state, t) ==
    LET c == [cb EXCEPT !.counts.ConsecutiveFailures = @ + 1,
                        !.counts.ConsecutiveSuccesses = 0]
    IN IF state \in {"closed", "half-open"}
       THEN IF ReadyToTrip(c.counts) THEN setState(c, "open", t) ELSE c
       ELSE cb

\* CircuitBreaker.onFailure
onFailure(cb, state, t) ==
    CASE state = "closed" ->
             LET c == [cb EXCEPT !.counts.ConsecutiveFailures = @ + 1,
                                 !.counts.ConsecutiveSuccesses = 0]
             IN IF ReadyToTrip(c.counts) THEN setState(c, "open", t) ELSE c
      [] state = "half-open" -> setState(cb, "open", t)
      [] OTHER -> cb

\* CircuitBreaker.afterRequest: a result of an earlier generation is dropped.
afterRequest(cb, before, success, t) ==
    LET c == currentState(cb, t)
    IN IF c.generation # before
       THEN c
       ELSE IF success THEN onSuccess(c, c.state, t) ELSE onFailure(c, c.state, t)

\* gobreaker.NewCircuitBreaker
NewCircuitBreaker(t) ==
    toNewGeneration([state |-> "closed", generation |-> 0,
                     counts |-> ClearCounts, expiry |-> 0], t)

\* BreakerManager.GetBreaker: the breaker of the name, created on first use.
GetBreaker(brs, serviceName, t) ==
    IF serviceName \in DOMAIN brs
    THEN brs
    ELSE MapPut(brs, serviceName, NewCircuitBreaker(t))

(***************************************************************************)
(* Proxy handler.  A path is the sequence of its segments: "/a/b" is       *)
(* <<"a", "b">>, "/" is <<"">> and the empty string is << >>.              *)
(***************************************************************************)
\* The proxy routes of main: api.Any("/users/*path"), "/products/*path" and
\* "/orders/*path" in the group /api/v1; the wildcard's value is what follows
\* the route's own segments, with its leading slash.
RoutedServices == {"users", "products", "orders"}

Route(segs) ==
    IF Len(segs) >= 4 /\ segs[1] = "api" /\ segs[2] = "v1" /\ segs[3] \in RoutedServices
    THEN [handler |-> "ProxyRequest", path |-> SubSeq(segs, 4, Len(segs))]
    ELSE [handler |-> "other", path |-> << >>]

\* ProxyRequest's parsing of c.Param("path"): TrimPrefix(path, "/") split at
\* the first "/" into at most two parts.
ParsePath(path) ==
    [nparts |-> IF Len(path) > 1 THEN 2 ELSE 1,
     serviceName |-> IF Len(path) = 0 THEN "" ELSE path[1],
     remainingPath |-> IF Len(path) > 1 THEN Tail(path) ELSE << >>]

\* url.Parse(targetURL + path): a "%" that no two hexadecimal digits follow
\* is an invalid escape.  (The path is c.Param("path"), which gin takes from
\* the decoded URL: the client that sends %25zz gives the segment %zz.)
URLParses(targetURL, path) == \A i \in 1..Len(path) : path[i] # "%zz"

\* forwardRequest as the breaker sees it: the target URL is parsed and the
\* client's body read before the backend is called (`sent`); an error of
\* either, like a transport error, is an error; any response of the backend
\* is a result.
forwardRequest(targetURL, path, outcome) ==
    IF ~URLParses(targetURL, path)
    THEN [err |-> "invalid URL escape", StatusCode |-> 0, sent |-> FALSE]
    ELSE IF outcome.bodyError
    THEN [err |-> "unexpected EOF", StatusCode |-> 0, sent |-> FALSE]
    ELSE IF outcome.transportError
    THEN [err |-> "connection refused", StatusCode |-> 0, sent |-> TRUE]
    ELSE [err |-> "", StatusCode |-> outcome.status, sent |-> TRUE]

\* A slip BreakerErrorResponse could make: the error's text goes to the client.
BreakerErrorResponseLeaky(err) == [status |-> 503, message |-> err]

\* ProxyRequest when breaker.Execute returns an error: the error is logged and
\* the client is sent 503 with a fixed message.
BreakerErrorResponse(err) == [status |-> 503, message |-> "Service temporarily unavailable"]

\* The proxied requests in progress at once: two goroutines.
Procs == {1, 2}
NoLoc == [req |-> << >>, serviceName |-> "", remainingPath |-> << >>, svc |-> 0,
          targetURL |-> "", generation |-> 0, startedAt |-> 0, trialEpisode |-> 0]
NoEv == [type |-> "none"]

\* What the callers of one breaker have observed so far.
NoHist == [failRun |-> 0, run |-> 0, runGen |-> 0, openedAt |-> 0, tripPending |-> FALSE,
           episode |-> 0, hoAdmitted |-> 0, hoSucc |-> 0]

HistOf(name) == IF name \in DOMAIN brHist THEN brHist[name] ELSE NoHist

HistBefore(h, cb0, r) ==
    LET c == r.cb
        entersHO == cb0.state = "open" /\ c.state = "half-open"
        admitted == IF r.err = "" THEN 1 ELSE 0
    IN [h EXCEPT !.episode = IF entersHO THEN @ + 1 ELSE @,
                 !.hoAdmitted = IF c.state = "half-open"
                                THEN (IF entersHO THEN 0 ELSE @) + admitted
                                ELSE 0,
                 !.hoSucc = IF c.state = "half-open" /\ ~entersHO THEN @ ELSE 0,
                 !.tripPending = FALSE,
                 !.run = IF h.runGen = c.generation THEN @ ELSE 0,
                 !.runGen = c.generation]

HistAfter(h, cb0, cur, cb1, l, success, t) ==
    LET n0 == IF h.runGen = cur.generation THEN h.run ELSE 0
        counted == l.generation = cur.generation
        n1 == IF ~counted THEN n0 ELSE IF success THEN 0 ELSE n0 + 1
        entersHO == cb0.state = "open" /\ cur.state = "half-open"
        currentTrial == l.trialEpisode # 0 /\ l.trialEpisode = h.episode
                        /\ cb0.state = "half-open"
    IN [h EXCEPT !.failRun = IF success THEN 0
                             ELSE IF cb0.state = "closed" THEN @ + 1 ELSE @,
                 !.run = n1,
                 !.runGen = cur.generation,
                 !.openedAt = IF cb1.state = "open" /\ cur.state # "open" THEN t ELSE @,
                 !.tripPending = @ \/ (counted /\ ~success /\ cur.state = "closed"
                                       /\ n1 >= Threshold),
                 !.episode = IF entersHO THEN @ + 1 ELSE @,
                 !.hoAdmitted = IF cb1.state = "half-open" /\ ~entersHO THEN @ ELSE 0,
                 !.hoSucc = IF cb1.state = "half-open" /\ ~entersHO
                            THEN (IF currentTrial /\ success THEN @ + 1 ELSE @)
                            ELSE 0]

\* ProxyRequest up to the registry lookup.
ProxyResolve(p, segs) ==
    /\ pc[p] = "idle"
    /\ calls < MaxCalls
    /\ Route(segs).handler = "ProxyRequest"
    /\ calls' = calls + 1
    /\ LET parsed == ParsePath(Route(segs).path)
           g == Get(heap, services, parsed.serviceName)
           status == IF parsed.nparts = 0 THEN 400 ELSE IF g.err # "" THEN 404 ELSE 0
       IN /\ pc' = [pc EXCEPT ![p] = IF status = 0 THEN "resolved" ELSE "idle"]
          /\ loc' = [loc EXCEPT ![p] = IF status = 0
                                       THEN [NoLoc EXCEPT !.req = segs,
                                                          !.serviceName = parsed.serviceName,
                                                          !.remainingPath = parsed.remainingPath,
                                                          !.svc = g.svc]
                                       ELSE NoLoc]
          /\ ev' = [type |-> "resolve", p |-> p, req |-> segs,
                    serviceName |-> parsed.serviceName,
                    remainingPath |-> parsed.remainingPath, status |-> status]
    /\ UNCHANGED <<sqVars, lsVars, bmVars, sdVars, cxVars, plVars, fwVars, rlVars, regVars, lbVars, brVars, now>>

\* ProxyRequest: the instance selection.
ProxySelect(p) ==
    /\ pc[p] = "resolved"
    /\ LET svc == heap[loc[p].svc]
           r == RoundRobin(counters, svc)
       IN /\ counters' = r.counters
          /\ rrLog' = IF r.err = ""
                      THEN LogPick(rrLog, svc, MapGetInt(counters, svc.Name), r.url)
                      ELSE rrLog
          /\ pc' = [pc EXCEPT ![p] = IF r.err = "" THEN "selected" ELSE "idle"]
          /\ loc' = [loc EXCEPT ![p] = IF r.err = "" THEN [@ EXCEPT !.targetURL = r.url]
                                       ELSE NoLoc]
          /\ ev' = [type |-> "select", p |-> p, req |-> loc[p].req,
                    serviceName |-> loc[p].serviceName, instances |-> Len(svc.URLs),
                    targetURL |-> r.url, status |-> IF r.err = "" THEN 0 ELSE 503]
    /\ UNCHANGED <<sqVars, lsVars, bmVars, sdVars, cxVars, plVars, fwVars, rlVars, regVars, brVars, calls, now>>

\* ProxyRequest: GetBreaker and the admission half of breaker.Execute; an
\* admitted call has forwardRequest running from here on.
ProxyExecute(p) ==
    /\ pc[p] = "selected"
    /\ LET name == loc[p].serviceName
           brs == GetBreaker(breakers, name, now)
           cb0 == brs[name]
           r == beforeRequest(cb0, now)
           h == HistBefore(HistOf(name), cb0, r)
       IN /\ breakers' = MapPut(brs, name, r.cb)
          /\ brHist' = MapPut(brHist, name, h)
          /\ pc' = [pc EXCEPT ![p] = IF r.err = "" THEN "inflight" ELSE "idle"]
          /\ loc' = [loc EXCEPT ![p] =
                        IF r.err = ""
                        THEN [@ EXCEPT !.generation = r.generation,
                                       !.startedAt = now,
                                       !.trialEpisode = IF r.cb.state = "half-open"
                                                        THEN h.episode ELSE 0]
                        ELSE NoLoc]
          /\ ev' = [type |-> "before", p |-> p, time |-> now,
                    req |-> loc[p].req, serviceName |-> name,
                    targetURL |-> loc[p].targetURL, remainingPath |-> loc[p].remainingPath,
                    stateBefore |-> cb0.state, stateAfter |-> r.cb.state,
                    sinceOpen |-> now - HistOf(name).openedAt,
                    afterTrip |-> HistOf(name).tripPending,
                    admittedBefore |-> IF cb0.state = "half-open"
                                       THEN HistOf(name).hoAdmitted ELSE 0,
                    admitted |-> r.err = "",
                    err |-> r.err,
                    message |-> IF r.err = "" THEN "" ELSE BreakerErrorResponse(r.err).message,
                    status |-> IF r.err = "" THEN 0 ELSE BreakerErrorResponse(r.err).status]
    /\ UNCHANGED <<sqVars, lsVars, bmVars, sdVars, cxVars, plVars, fwVars, rlVars, regVars, lbVars, calls, now>>

\* ProxyRequest: forwardRequest returns, breaker.Execute records the result
\* and the response is written.
ProxyComplete(p, outcome) ==
    /\ pc[p] = "inflight"
    /\ LET name == loc[p].serviceName
           cb0 == breakers[name]
           res == forwardRequest(loc[p].targetURL, loc[p].remainingPath, outcome)
           cur == currentState(cb0, now)
           cb1 == afterRequest(cb0, loc[p].generation, res.err = "", now)
           h0 == HistOf(name)
           h == HistAfter(h0, cb0, cur, cb1, loc[p], res.err = "", now)
       IN /\ breakers' = [breakers EXCEPT ![name] = cb1]
          /\ brHist' = MapPut(brHist, name, h)
          /\ ev' = [type |-> "after", p |-> p, time |-> now,
                    req |-> loc[p].req, serviceName |-> name,
                    outcome |-> outcome,
                    sent |-> res.sent,
                    stateBefore |-> cb0.state, stateAfter |-> cb1.state,
                    failuresBefore |-> cur.counts.ConsecutiveFailures,
                    failuresAfter |-> cb1.counts.ConsecutiveFailures,
                    sameGeneration |-> loc[p].generation = cur.generation,
                    trial |-> loc[p].trialEpisode # 0,
                    currentTrial |-> loc[p].trialEpisode # 0
                                     /\ loc[p].trialEpisode = h0.episode
                                     /\ cb0.state = "half-open",
                    trialSuccesses |-> h0.hoSucc + (IF res.err = "" THEN 1 ELSE 0),
                    run |-> h.run,
                    expiry |-> cb1.expiry,
                    err |-> res.err,
                    message |-> IF res.err = "" THEN "" ELSE BreakerErrorResponse(res.err).message,
                    status |-> IF res.err = "" THEN res.StatusCode
                               ELSE BreakerErrorResponse(res.err).status]
    /\ pc' = [pc EXCEPT ![p] = "idle"]
    /\ loc' = [loc EXCEPT ![p] = NoLoc]
    /\ UNCHANGED <<sqVars, lsVars, bmVars, sdVars, cxVars, plVars, fwVars, rlVars, regVars, lbVars, calls, now>>

\* Time passes; a forwardRequest in progress returns before its timeouts are over.
Tick ==
    /\ now < MaxTime
    /\ \A p \in Procs : pc[p] = "inflight" => now + 1 - loc[p].startedAt <= MaxFlight
    /\ now' = now + 1
    /\ UNCHANGED <<sqVars, lsVars, bmVars, sdVars, cxVars, plVars, fwVars, rlVars, regVars, lbVars, brVars, pxVars>>

(***************************************************************************)
(* Operations on the registry and the load balancer.                       *)
(***************************************************************************)
\* What the registry holds: the entries its map points to.
View(h, svcs) == {h[svcs[n]] : n \in DOMAIN svcs}

\* While ListServices is at work, every content the registry takes is kept.
Observed(lpc, views, h, svcs) ==
    IF lpc = "encoding" THEN views \cup {View(h, svcs)} ELSE views

\* The event of a registry operation: its argument, the error it returned
\* and the registry it was called on.
RegistryEv(type, name, err) ==
    [type |-> type, name |-> name, err |-> err, heap0 |-> heap, services0 |-> services]

\* A slip Register could make: the name starts afresh in the load balancer.
RegisterForgetting(name, urls, healthURL) ==
    /\ Len(heap) < MaxObjs
    /\ LET r == RegisterResult(heap, services, name, urls, healthURL)
       IN /\ heap' = r.heap
          /\ services' = r.services
    /\ ev' = [type |-> "register", name |-> name, urls |-> urls, healthURL |-> healthURL,
              err |-> "", heap0 |-> heap, services0 |-> services]
    /\ UNCHANGED <<sqVars, lsPc, lsTodo, lsOut, bmVars, sdVars, cxVars, plVars, fwVars, rlVars, listed, rrLog, brVars, pc, loc, calls, now>>
    /\ lsViews' = Observed(lsPc, lsViews, heap', services')
    /\ counters' = MapDelete(counters, name)

Register(name, urls, healthURL) ==
    /\ Len(heap) < MaxObjs
    /\ LET r == RegisterResult(heap, services, name, urls, healthURL)
       IN /\ heap' = r.heap
          /\ services' = r.services
    /\ ev' = [type |-> "register", name |-> name, urls |-> urls, healthURL |-> healthURL,
              err |-> "", heap0 |-> heap, services0 |-> services]
    /\ UNCHANGED <<sqVars, lsPc, lsTodo, lsOut, bmVars, sdVars, cxVars, plVars, fwVars, rlVars, listed, lbVars, brVars, pc, loc, calls, now>>
    /\ lsViews' = Observed(lsPc, lsViews, heap', services')

Unregister(name) ==
    /\ LET r == UnregisterResult(services, name)
       IN /\ services' = r.services
          /\ ev' = RegistryEv("unregister", name, r.err)
    /\ UNCHANGED <<sqVars, lsPc, lsTodo, lsOut, bmVars, sdVars, cxVars, plVars, fwVars, rlVars, heap, listed, lbVars, brVars, pc, loc, calls, now>>
    /\ lsViews' = Observed(lsPc, lsViews, heap', services')

SetActive(name, active) ==
    /\ LET r == SetActiveResult(heap, services, name, active)
       IN /\ heap' = r.heap
          /\ ev' = RegistryEv("setactive", name, r.err)
    /\ UNCHANGED <<sqVars, lsPc, lsTodo, lsOut, bmVars, sdVars, cxVars, plVars, fwVars, rlVars, services, listed, lbVars, brVars, pc, loc, calls, now>>
    /\ lsViews' = Observed(lsPc, lsViews, heap', services')

\* Registry.List: a new slice with the pointers the map holds; the order of
\* the slice is not specified, so it is kept as a set.
List(svcs) == {svcs[n] : n \in DOMAIN svcs}

NoList == [held |-> FALSE, svcs |-> {}, seen |-> EmptyMap]

\* Some caller calls Registry.List and keeps what it returned; `seen` is what
\* the returned entries showed at that moment.
RegistryList ==
    /\ LET l == List(services)
       IN listed' = [held |-> TRUE, svcs |-> l, seen |-> [i \in l |-> heap[i]]]
    /\ ev' = [type |-> "list"]
    /\ UNCHANGED <<sqVars, lsVars, bmVars, sdVars, cxVars, plVars, fwVars, rlVars, heap, services, lbVars, brVars, pc, loc, calls, now>>

\* Some caller looks a name up with Registry.Get.
RegistryGet(name) ==
    /\ LET r == Get(heap, services, name)
       IN ev' = [type |-> "get", name |-> name, svc |-> r.svc, err |-> r.err]
    /\ UNCHANGED <<sqVars, lsVars, bmVars, sdVars, cxVars, plVars, fwVars, rlVars, regVars, lbVars, brVars, pc, loc, calls, now>>

\* Some request calls lb.RoundRobin(svc) with a *Service it got from
\* Registry.Get earlier: any object allocated so far may still be held.
LBRoundRobin(id) ==
    /\ TotalPicks(rrLog) < MaxSelects
    /\ LET svc == heap[id]
           r == RoundRobin(counters, svc)
       IN /\ counters' = r.counters
          /\ rrLog' = IF r.err = ""
                      THEN LogPick(rrLog, svc, MapGetInt(counters, svc.Name), r.url)
                      ELSE rrLog
    /\ UNCHANGED <<sqVars, lsVars, bmVars, sdVars, cxVars, plVars, fwVars, rlVars, regVars, brVars, pxVars, now>>

(***************************************************************************)
(* Rate limiter: a token bucket per client address, kept in a Redis hash.  *)
(* Token counts are held multiplied by Window, which makes every value the *)
(* handler computes an integer (refillRate is Requests / Window tokens per *)
(* second); the computation is the exact one, without float64 rounding.    *)
(***************************************************************************)
\* time.Now().Unix(): the whole seconds of the clock.
Unix(t) == t \div TicksPerSec

\* math.Min
Min(a, b) == IF a < b THEN a ELSE b

\* math.Ceil(a / b) for a >= 0 and b > 0
CeilDiv(a, b) == (a + b - 1) \div b

\* A key the store does not hold.  `version` counts the changes of the key's value.
NoBucket(version) ==
    [exists |-> FALSE, tokens |-> 0, timestamp |-> 0, expireAt |-> 0, version |-> version]

\* HGetAll and Exec: the hash's fields, none when the key is absent; err when
\* the command failed.
HGetAll(st, ip, ok) ==
    IF ok /\ st[ip].exists
    THEN [err |-> FALSE, len |-> 2, tokens |-> st[ip].tokens, timestamp |-> st[ip].timestamp]
    ELSE [err |-> ~ok, len |-> 0, tokens |-> 0, timestamp |-> 0]

\* The pipeline of a new client: HSet tokens, HSet timestamp, Expire 2 * Window.
InitBucket(st, ip, t) ==
    [st EXCEPT ![ip] = [exists |-> TRUE,
                        tokens |-> (Requests - 1) * Window,
                        timestamp |-> Unix(t),
                        expireAt |-> t + 2 * Window * TicksPerSec,
                        version |-> @.version + 1]]

\* The pipeline of a known client: HSet tokens, HSet timestamp.  HSet leaves the
\* key's time to live as it is, and creates a key that has none.
ConsumeBucket(st, ip, tokens, nowSec) ==
    [st EXCEPT ![ip] = [exists |-> TRUE,
                        tokens |-> tokens,
                        timestamp |-> nowSec,
                        expireAt |-> IF @.exists THEN @.expireAt ELSE 0,
                        version |-> @.version + 1]]

\* Redis forgets the keys whose time to live is over.
Expired(st, t) ==
    [ip \in DOMAIN st |->
        IF st[ip].exists /\ st[ip].expireAt # 0 /\ st[ip].expireAt <= t
        THEN NoBucket(st[ip].version + 1)
        ELSE st[ip]]

\* A slip Refill could make: one token a second, whatever the configured rate.
RefillSlow(tokens, lastTimestamp, nowSec) ==
    Min(Requests * Window, tokens + (nowSec - lastTimestamp))

\* A slip Refill could make: the bucket is not capped at its capacity.
RefillUncapped(tokens, lastTimestamp, nowSec) ==
    tokens + (nowSec - lastTimestamp) * Requests

\* tokens = math.Min(cfg.Requests, tokens + elapsed * refillRate)
Refill(tokens, lastTimestamp, nowSec) ==
    Min(Requests * Window, tokens + (nowSec - lastTimestamp) * Requests)

\* A slip RetryAfter could make: the wait is rounded down.
RetryAfterFloor(tokens) == (Window - tokens) \div Requests

\* retryAfter = int(math.Ceil((1 - tokens) / refillRate)), in seconds
RetryAfter(tokens) == CeilDiv(Window - tokens, Requests)

NoHeaders == [set |-> FALSE, limit |-> 0, remaining |-> 0, reset |-> 0, retryAfter |-> 0]

NoRlLoc ==
    [ip |-> "", bucketData |-> HGetAll([i \in {""} |-> NoBucket(0)], "", TRUE),
     start |-> 0, gap |-> -1, version |-> 0, overlapped |-> FALSE]

\* No burst of requests is being followed for the address.
NoBurst == [live |-> FALSE, start |-> 0, n |-> 0, admitted |-> 0]

NoRlEv == [type |-> "none"]

\* The refill period Window / Requests has passed since the burst began (in ticks).
BurstOver(b, t) == (t - b.start) * Requests >= Window * TicksPerSec

\* RateLimiter, its first part: the bucket's state is read (HGetAll).
RLRead(p, ip, ok) ==
    /\ rlPc[p] = "idle"
    /\ rlReqs < MaxReqs
    /\ rlReqs' = rlReqs + 1
    /\ ok \/ rlFaults < MaxFaults
    /\ rlFaults' = IF ok THEN rlFaults ELSE rlFaults + 1
    /\ rlPc' = [rlPc EXCEPT ![p] = "read"]
    /\ LET meets == \E q \in Procs \ {p} : rlPc[q] = "read" /\ rlLoc[q].ip = ip
       IN rlLoc' = [q \in Procs |->
                      IF q = p
                      THEN [ip |-> ip, bucketData |-> HGetAll(store, ip, ok),
                            start |-> wall,
                            gap |-> IF rlSeen[ip] < 0 THEN -1 ELSE wall - rlSeen[ip],
                            version |-> store[ip].version,
                            overlapped |-> meets]
                      ELSE IF rlPc[q] = "read" /\ rlLoc[q].ip = ip
                      THEN [rlLoc[q] EXCEPT !.overlapped = TRUE]
                      ELSE rlLoc[q]]
    /\ rlSeen' = [rlSeen EXCEPT ![ip] = wall]
    /\ rlEv' = NoRlEv
    /\ UNCHANGED <<store, wall, rlBurst, rlAdmittedOn>>
    /\ UNCHANGED <<sqVars, lsVars, bmVars, sdVars, cxVars, plVars, fwVars, regVars, lbVars, brVars, pxVars, now>>

\* RateLimiter, the rest: a new client's bucket is initialised; a known
\* client's bucket is refilled, and the request is rejected or a token is
\* consumed and the bucket written back.  `ok` is whether the write succeeds.
RLDecide(p, ok) ==
    /\ rlPc[p] = "read"
    /\ ok \/ rlFaults < MaxFaults
    /\ LET ip == rlLoc[p].ip
           bucketData == rlLoc[p].bucketData
           fresh == bucketData.err \/ bucketData.len = 0
           nowSec == Unix(wall)
           tokens == Refill(bucketData.tokens, bucketData.timestamp, nowSec)
           rejected == ~fresh /\ tokens < Window
           written == ~rejected /\ ok
           left == tokens - Window
           headers == IF fresh THEN NoHeaders
                      ELSE IF rejected
                      THEN [set |-> TRUE, limit |-> Requests, remaining |-> 0,
                            reset |-> nowSec + RetryAfter(tokens),
                            retryAfter |-> RetryAfter(tokens)]
                      ELSE IF ok
                      THEN [set |-> TRUE, limit |-> Requests,
                            remaining |-> left \div Window,
                            reset |-> nowSec + Window, retryAfter |-> -1]
                      ELSE NoHeaders
           clean == ~rlLoc[p].overlapped /\ ~bucketData.err /\ (rejected \/ ok)
           burst == IF fresh /\ clean
                    THEN [live |-> TRUE, start |-> rlLoc[p].start, n |-> 1, admitted |-> 1]
                    ELSE IF rlBurst[ip].live /\ clean
                    THEN [rlBurst[ip] EXCEPT !.n = @ + 1,
                                             !.admitted = IF written THEN @ + 1 ELSE @]
                    ELSE NoBurst
       IN /\ store' = IF ~written THEN store
                      ELSE IF fresh THEN InitBucket(store, ip, wall)
                      ELSE ConsumeBucket(store, ip, left, nowSec)
          /\ rlBurst' = [rlBurst EXCEPT ![ip] = IF BurstOver(burst, wall) THEN NoBurst ELSE burst]
          /\ rlAdmittedOn' = [rlAdmittedOn EXCEPT ![ip] =
                                 IF written THEN @ \cup {rlLoc[p].version} ELSE @]
          /\ rlEv' = [type |-> "decide", ip |-> ip, p |-> p,
                      fresh |-> fresh, readErr |-> bucketData.err,
                      writeErr |-> ~rejected /\ ~ok,
                      overlapped |-> rlLoc[p].overlapped,
                      gap |-> rlLoc[p].gap,
                      version |-> rlLoc[p].version,
                      admittedOnIt |-> rlLoc[p].version \in rlAdmittedOn[ip],
                      stored |-> bucketData.tokens,
                      elapsed |-> nowSec - bucketData.timestamp,
                      nowSec |-> nowSec,
                      tokens |-> IF fresh THEN 0 ELSE tokens,
                      next |-> written,
                      status |-> IF rejected THEN 429 ELSE IF ok THEN 0 ELSE 500,
                      headers |-> headers,
                      nth |-> IF burst.live /\ ~BurstOver(burst, wall) THEN burst.n ELSE 0,
                      span |-> wall - burst.start,
                      admittedBefore |-> IF burst.live THEN rlBurst[ip].admitted ELSE 0]
          /\ rlFaults' = IF rejected \/ ok THEN rlFaults ELSE rlFaults + 1
    /\ rlPc' = [rlPc EXCEPT ![p] = "idle"]
    /\ rlLoc' = [rlLoc EXCEPT ![p] = NoRlLoc]
    /\ rlSeen' = [rlSeen EXCEPT ![rlLoc[p].ip] = wall]
    /\ UNCHANGED <<wall, rlReqs>>
    /\ UNCHANGED <<sqVars, lsVars, bmVars, sdVars, cxVars, plVars, fwVars, regVars, lbVars, brVars, pxVars, now>>

\* The limiter's clock advances by one tick.
RLTick ==
    /\ wall < MaxWall
    /\ wall' = wall + 1
    /\ store' = Expired(store, wall + 1)
    /\ rlBurst' = [ip \in ClientIPs |->
                      IF rlBurst[ip].live /\ BurstOver(rlBurst[ip], wall + 1)
                      THEN NoBurst ELSE rlBurst[ip]]
    /\ LET gone == {ip \in ClientIPs : store[ip].exists /\ ~Expired(store, wall + 1)[ip].exists}
       IN rlEv' = IF gone = {} THEN NoRlEv
                  ELSE [type |-> "expire", ips |-> gone,
                        idle |-> [ip \in gone |-> wall + 1 - rlSeen[ip]]]
    /\ UNCHANGED <<rlPc, rlLoc, rlFaults, rlReqs, rlAdmittedOn, rlSeen>>
    /\ UNCHANGED <<sqVars, lsVars, bmVars, sdVars, cxVars, plVars, fwVars, regVars, lbVars, brVars, pxVars, now>>

(***************************************************************************)
(* The rate limiter serving a client that sends its requests one after the *)
(* other: the handler runs from its read to its write before the client's  *)
(* next request arrives.                                                   *)
(***************************************************************************)
\* RateLimiter, the whole handler for one request at time t: the bucket is
\* read; a new client's bucket is initialised; a known client's bucket is
\* refilled, and the request is rejected with 429 and Retry-After, or a
\* token is consumed and the bucket written back.  status 0: c.Next().
RateLimiter(st, ip, t, okRead, okWrite) ==
    LET bucketData == HGetAll(st, ip, okRead)
        fresh == bucketData.err \/ bucketData.len = 0
        nowSec == Unix(t)
        tokens == Refill(bucketData.tokens, bucketData.timestamp, nowSec)
        rejected == ~fresh /\ tokens < Window
    IN [store |-> IF rejected \/ ~okWrite THEN st
                  ELSE IF fresh THEN InitBucket(st, ip, t)
                  ELSE ConsumeBucket(st, ip, tokens - Window, nowSec),
        status |-> IF rejected THEN 429 ELSE IF okWrite THEN 0 ELSE 500,
        next |-> ~rejected /\ okWrite,
        fresh |-> fresh,
        retryAfter |-> IF rejected THEN RetryAfter(tokens) ELSE -1,
        failed |-> (IF okRead THEN 0 ELSE 1) + (IF ~rejected /\ ~okWrite THEN 1 ELSE 0)]

\* The answer to a request: `waited` and `prevRetryAfter` are kept when the
\* request before it was rejected with 429 (`afterReject`).
NoAnswer == [status |-> -1, next |-> FALSE, fresh |-> FALSE, retryAfter |-> -1,
             at |-> 0, afterReject |-> FALSE, prevRetryAfter |-> -1, waited |-> 0]

InitSequential ==
    /\ sqLog = << >>
    /\ sqLast = NoAnswer
    /\ sqReqs = 0

\* The client's next request goes through the limiter.
SeqRequest(ip, okRead, okWrite) ==
    /\ sqReqs < MaxSeqReqs
    /\ LET r == RateLimiter(store, ip, wall, okRead, okWrite)
           clean == rlFaults + r.failed = 0
       IN /\ rlFaults + r.failed <= MaxFaults
          /\ rlFaults' = rlFaults + r.failed
          /\ store' = r.store
          /\ sqLog' = IF ~clean THEN << >>
                      ELSE IF r.next THEN Append(sqLog, wall) ELSE sqLog
          /\ sqLast' = IF ~clean THEN NoAnswer
                       ELSE [status |-> r.status, next |-> r.next, fresh |-> r.fresh,
                             retryAfter |-> r.retryAfter,
                             at |-> IF r.status = 429 THEN wall ELSE 0,
                             afterReject |-> sqLast.status = 429,
                             prevRetryAfter |-> sqLast.retryAfter,
                             waited |-> IF sqLast.status = 429 THEN wall - sqLast.at ELSE 0]
    /\ sqReqs' = sqReqs + 1
    /\ UNCHANGED <<wall, rlPc, rlLoc, rlReqs, rlBurst, rlAdmittedOn, rlSeen, rlEv>>
    /\ UNCHANGED <<lsVars, bmVars, sdVars, cxVars, plVars, fwVars, regVars, lbVars, brVars, pxVars, now>>

(***************************************************************************)
(* Forwarding: the outbound request forwardRequest builds from the inbound *)
(* one, and the relay of the backend's response.  An http.Header is a map  *)
(* from a header's name to the sequence of its values; the names of an     *)
(* inbound request are in canonical form, as net/http stores them.         *)
(***************************************************************************)
HopByHopHeaders ==
    {"Connection", "Keep-Alive", "Proxy-Authenticate", "Proxy-Authorization",
     "Te", "Trailers", "Transfer-Encoding", "Upgrade"}

\* The lower-case form of a header's name.
ToLower(name) ==
    CASE name \in {"Connection", "connection"} -> "connection"
      [] name = "Keep-Alive" -> "keep-alive"
      [] name = "Proxy-Authenticate" -> "proxy-authenticate"
      [] name = "Proxy-Authorization" -> "proxy-authorization"
      [] name = "Te" -> "te"
      [] name = "Trailers" -> "trailers"
      [] name = "Transfer-Encoding" -> "transfer-encoding"
      [] name \in {"Upgrade", "UPGRADE"} -> "upgrade"
      [] name = "Accept" -> "accept"
      [] name = "X-Forwarded-For" -> "x-forwarded-for"
      [] name = "X-Forwarded-Host" -> "x-forwarded-host"
      [] name = "X-Real-Ip" -> "x-real-ip"
      [] OTHER -> name

\* strings.EqualFold: equality of two names whatever their case
EqualFold(a, b) == ToLower(a) = ToLower(b)

\* A slip isHopByHopHeader could make: Upgrade is missing from the list.
isHopByHopHeaderShort(header) ==
    \E h \in HopByHopHeaders \ {"Upgrade"} : EqualFold(header, h)

isHopByHopHeader(header) == \E h \in HopByHopHeaders : EqualFold(header, h)

\* The request header names and values used as inputs.
\* The names other than the hop-by-hop ones are in canonical form, as net/http
\* stores them, so that Header.Add keeps them as they are.
RequestHeaderNames ==
    HopByHopHeaders \cup {"connection", "UPGRADE"}
        \cup {"Accept", "X-Forwarded-For", "X-Forwarded-Host", "X-Real-Ip"}
RequestHeaderValues == {"a", "5.6.7.8, 1.2.3.4"}
RemoteAddrs == {"10.0.0.9"}

\* The response header names and values used as inputs.
ResponseHeaderNames == {"Content-Type", "Set-Cookie", "X-Backend"}
ResponseHeaderValues == {"", "x", "y"}
ResponseStatuses == {200, 404, 500}
ResponseBodies == {"", "body"}

\* One or two values of a header, in order.
ValueLists(values) == {<<v>> : v \in values} \cup {<<v, w>> : v \in values, w \in values}

\* The headers with at most MaxHeaders names.
Headers(names, values) ==
    UNION {[ks -> ValueLists(values)] :
              ks \in {x \in SUBSET names : Cardinality(x) <= MaxHeaders}}

\* Header.Get: the first value of the header, "" when it is absent.
HeaderGet(h, k) == IF k \in DOMAIN h THEN h[k][1] ELSE ""

\* Header.Set: the header's values are replaced by the one value.
HeaderSet(h, k, v) == MapPut(h, k, <<v>>)

\* The addresses of a comma-separated list, "" for an item that is no address.
ParseIPs(value) ==
    CASE value = "1.2.3.4" -> <<"1.2.3.4">>
      [] value = "5.6.7.8, 1.2.3.4" -> <<"5.6.7.8", "1.2.3.4">>
      [] OTHER -> <<"">>

\* gin's validateHeader with the engine's default trusted proxies (all
\* addresses): the list is valid when all its items are addresses, and the
\* client is then the leftmost one.
validateHeader(value) ==
    LET ips == ParseIPs(value)
    IN IF value = "" \/ \E i \in 1..Len(ips) : ips[i] = ""
       THEN [ip |-> "", valid |-> FALSE]
       ELSE [ip |-> ips[1], valid |-> TRUE]

\* gin's Context.ClientIP for a router made by gin.New(): the remote peer is
\* a trusted proxy, so X-Forwarded-For and then X-Real-Ip are consulted before
\* the connection's address.
ClientIP(req) ==
    LET xff == validateHeader(HeaderGet(req.Header, "X-Forwarded-For"))
        xri == validateHeader(HeaderGet(req.Header, "X-Real-Ip"))
    IN IF xff.valid THEN xff.ip
       ELSE IF xri.valid THEN xri.ip
       ELSE req.RemoteAddr

\* forwardRequest: the headers of the outbound request.
OutboundHeader(req) ==
    LET copied == [k \in {x \in DOMAIN req.Header : ~isHopByHopHeader(x)} |-> req.Header[k]]
        h1 == HeaderSet(copied, "X-Forwarded-For", ClientIP(req))
        h2 == HeaderSet(h1, "X-Forwarded-Proto", req.Proto)
    IN HeaderSet(h2, "X-Forwarded-Host", req.Host)

\* gin's c.Header called for every value of a backend header in turn: a value
\* replaces the header (Set), an empty value removes it (Del).
RelayHeader(headers) ==
    [k \in {x \in DOMAIN headers : headers[x][Len(headers[x])] # ""} |->
        <<headers[k][Len(headers[k])]>>]

\* c.Data: the content type is written when the header is not there yet.
WriteContentType(h, contentType) ==
    IF "Content-Type" \in DOMAIN h THEN h ELSE MapPut(h, "Content-Type", <<contentType>>)

NoRequest == [Header |-> EmptyMap, RemoteAddr |-> "", Proto |-> "", Host |-> ""]
NoResponse == [StatusCode |-> 0, Headers |-> EmptyMap, Body |-> ""]

InboundRequests ==
    {[Header |-> h, RemoteAddr |-> a, Proto |-> "HTTP/1.1", Host |-> "gateway"] :
        h \in Headers(RequestHeaderNames, RequestHeaderValues), a \in RemoteAddrs}

BackendResponses ==
    {[StatusCode |-> st, Headers |-> h, Body |-> b] :
        st \in ResponseStatuses, h \in Headers(ResponseHeaderNames, ResponseHeaderValues),
        b \in ResponseBodies}

\* forwardRequest up to client.Do: the outbound request is built from the
\* inbound one.
FwdSend ==
    /\ fwdPc = "idle"
    /\ fwdPc' = "sent"
    /\ \E req \in InboundRequests :
          /\ inReq' = req
          /\ outReq' = [Header |-> OutboundHeader(req)]
    /\ UNCHANGED <<backResp, cliResp>>
    /\ UNCHANGED <<sqVars, lsVars, bmVars, sdVars, cxVars, plVars, regVars, lbVars, brVars, pxVars, now, rlVars>>

\* client.Do: the outbound request has left for the backend.
FwdDo ==
    /\ fwdPc = "sent"
    /\ fwdPc' = "waiting"
    /\ inReq' = NoRequest
    /\ outReq' = [Header |-> EmptyMap]
    /\ UNCHANGED <<backResp, cliResp>>
    /\ UNCHANGED <<sqVars, lsVars, bmVars, sdVars, cxVars, plVars, regVars, lbVars, brVars, pxVars, now, rlVars>>

\* forwardRequest returns the backend's response and ProxyRequest relays it.
FwdRelay ==
    /\ fwdPc = "waiting"
    /\ fwdPc' = "relayed"
    /\ \E resp \in BackendResponses :
          /\ backResp' = resp
          /\ cliResp' = [StatusCode |-> resp.StatusCode,
                         Headers |-> WriteContentType(RelayHeader(resp.Headers),
                                                      HeaderGet(resp.Headers, "Content-Type")),
                         Body |-> resp.Body]
    /\ UNCHANGED <<inReq, outReq>>
    /\ UNCHANGED <<sqVars, lsVars, bmVars, sdVars, cxVars, plVars, regVars, lbVars, brVars, pxVars, now, rlVars>>

\* ProxyRequest returns: the exchange is over.
FwdDone ==
    /\ fwdPc = "relayed"
    /\ fwdPc' = "idle"
    /\ backResp' = NoResponse
    /\ cliResp' = NoResponse
    /\ UNCHANGED <<inReq, outReq>>
    /\ UNCHANGED <<sqVars, lsVars, bmVars, sdVars, cxVars, plVars, regVars, lbVars, brVars, pxVars, now, rlVars>>

\* NewRegistry / NewLoadBalancer: the registry starts from the static
\* configuration, here the three proxied services' first one.
InitRegistry ==
    LET r == RegisterResult(<< >>, EmptyMap, "users", <<"a", "b">>, "/health")
    IN /\ heap = r.heap
       /\ services = r.services
       /\ listed = NoList

InitLB ==
    /\ counters = EmptyMap
    /\ rrLog = EmptyMap

InitBreakers ==
    /\ breakers = EmptyMap
    /\ brHist = EmptyMap

InitProxy ==
    /\ pc = [p \in Procs |-> "idle"]
    /\ loc = [p \in Procs |-> NoLoc]
    /\ calls = 0
    /\ ev = NoEv

\* No client has a bucket yet.
InitRL ==
    /\ store = [ip \in ClientIPs |-> NoBucket(0)]
    /\ wall = 0
    /\ rlPc = [p \in Procs |-> "idle"]
    /\ rlLoc = [p \in Procs |-> NoRlLoc]
    /\ rlFaults = 0
    /\ rlReqs = 0
    /\ rlBurst = [ip \in ClientIPs |-> NoBurst]
    /\ rlAdmittedOn = [ip \in ClientIPs |-> {}]
    /\ rlSeen = [ip \in ClientIPs |-> -1]
    /\ rlEv = NoRlEv

(***************************************************************************)
(* The router: the handler chain main registers for every route, and gin   *)
(* running it for one request.                                             *)
(***************************************************************************)
\* router.Use: the middleware of every route
GlobalMiddleware == <<"Recovery", "RequestLogger", "RequestID", "CORS", "SecurityHeaders">>

\* The routes main registers, by group, and a path that matches none.
Routes == {"health", "ready", "auth", "profile", "proxy", "admin", "noroute"}

\* A slip main could make: the api group authenticates before it limits.
ChainAuthFirst(route) ==
    GlobalMiddleware \o
    CASE route = "health" -> <<"Health">>
      [] route = "ready" -> <<"Readiness">>
      [] route = "auth" -> <<"AuthHandler">>
      [] route = "profile" -> <<"JWTAuth", "RateLimiter", "GetProfile">>
      [] route = "proxy" -> <<"JWTAuth", "RateLimiter", "ProxyRequest">>
      [] route = "admin" -> <<"RateLimiter", "JWTAuth", "RoleAuth", "AdminHandler">>
      [] OTHER -> <<"NoRoute">>

\* The handler chain of a route: the global middleware, the middleware of the
\* route's group, and the route's handler.
Chain(route) ==
    GlobalMiddleware \o
    CASE route = "health" -> <<"Health">>
      [] route = "ready" -> <<"Readiness">>
      [] route = "auth" -> <<"AuthHandler">>
      [] route = "profile" -> <<"RateLimiter", "JWTAuth", "GetProfile">>
      [] route = "proxy" -> <<"RateLimiter", "JWTAuth", "ProxyRequest">>
      [] route = "admin" -> <<"RateLimiter", "JWTAuth", "RoleAuth", "AdminHandler">>
      [] OTHER -> <<"NoRoute">>

Handlers == {"Health", "Readiness", "AuthHandler", "GetProfile", "ProxyRequest",
             "AdminHandler", "NoRoute"}

\* What a stage does with the request.
Pass == [kind |-> "next", status |-> 0, body |-> ""]
Respond(status, body) == [kind |-> "respond", status |-> status, body |-> body]
Panic(text) == [kind |-> "panic", status |-> 0, body |-> text]

\* A slip RateLimiter could make: a request whose bucket cannot be written
\* is let through.
RateLimiterOutcomeFailOpen(exhausted, fault) ==
    IF fault = "read" THEN Pass
    ELSE IF exhausted THEN Respond(429, "Rate limit exceeded. Please try again later.")
    ELSE Pass

\* RateLimiter, by the state of the caller's bucket and of the store: a failed
\* read takes the path of a new caller, whose bucket is written afresh; an
\* exhausted bucket is rejected before any write; a failed write is a 500.
RateLimiterOutcome(exhausted, fault) ==
    IF fault = "read" THEN Pass
    ELSE IF exhausted THEN Respond(429, "Rate limit exceeded. Please try again later.")
    ELSE IF fault = "write" THEN Respond(500, "Rate limiter error")
    ELSE Pass

\* JWTAuth: a request without a valid token is answered 401.
JWTAuthOutcome(token) == IF token = "none" THEN Respond(401, "Unauthorized") ELSE Pass

\* RoleAuth("admin"): a request whose token has another role is answered 403.
RoleAuthOutcome(token) == IF token = "admin" THEN Pass ELSE Respond(403, "Forbidden")

\* CORS: a preflight request is answered by the stage itself.
CORSOutcome(preflight) == IF preflight THEN Respond(204, "") ELSE Pass

\* A route handler writes its response.
HandlerOutcome(stage) ==
    IF stage = "NoRoute" THEN Respond(404, "404 page not found") ELSE Respond(200, "ok")

StageOutcome(stage, req) ==
    IF req.panicAt = stage THEN Panic("runtime error")
    ELSE CASE stage = "CORS" -> CORSOutcome(req.preflight)
           [] stage = "RateLimiter" -> RateLimiterOutcome(req.exhausted, req.fault)
           [] stage = "JWTAuth" -> JWTAuthOutcome(req.token)
           [] stage = "RoleAuth" -> RoleAuthOutcome(req.token)
           [] stage \in Handlers -> HandlerOutcome(stage)
           [] OTHER -> Pass

\* A slip Recovery could make: the panic's text is sent to the client.
RecoveryResponseLeaky(err) == [status |-> 500, body |-> err]

\* Recovery's deferred function: the response to a recovered panic.
RecoveryResponse(err) == [status |-> 500, body |-> "Internal server error"]

\* The requests: their route, whether the caller's bucket is exhausted, the
\* failure of the rate-limit store if any, the caller's token, whether it is a
\* CORS preflight, and the stage downstream of Recovery that panics, if any.
PipelineRequests ==
    {r \in [route : Routes, exhausted : BOOLEAN, fault : {"none", "read", "write"},
            token : {"none", "user", "admin"}, preflight : BOOLEAN,
            panicAt : {"none", "RequestLogger", "CORS", "RateLimiter", "JWTAuth"} \cup Handlers] :
        r.panicAt \in {"none"} \cup {Chain(r.route)[i] : i \in 1..Len(Chain(r.route))}}

NoPipelineRequest ==
    [route |-> "", exhausted |-> FALSE, fault |-> "none", token |-> "none",
     preflight |-> FALSE, panicAt |-> "none"]
NoPipelineResponse == [status |-> 0, body |-> ""]

InitPipeline ==
    /\ plPc = "idle"
    /\ plReq = NoPipelineRequest
    /\ plIdx = 0
    /\ plTrace = << >>
    /\ plResp = NoPipelineResponse
    /\ plAfterPanic = FALSE

\* The server hands a request to the router: the chain of its route is set.
PlArrive ==
    /\ plPc = "idle"
    /\ plPc' = "running"
    /\ \E req \in PipelineRequests : plReq' = req
    /\ plIdx' = 1
    /\ UNCHANGED <<plTrace, plResp, plAfterPanic>>
    /\ UNCHANGED <<sqVars, lsVars, bmVars, sdVars, cxVars, fwVars, regVars, lbVars, brVars, pxVars, now, rlVars>>

\* c.Next enters the next stage of the chain.  A stage that passes leaves the
\* index to the next one; a stage that responds aborts the chain or is its
\* last; a panic unwinds to Recovery's deferred function when Recovery is
\* upstream, and to net/http otherwise, which drops the connection.
PlStep ==
    /\ plPc = "running"
    /\ LET chain == Chain(plReq.route)
           stage == chain[plIdx]
           o == StageOutcome(stage, plReq)
           recovered == \E i \in 1..(plIdx - 1) : chain[i] = "Recovery"
       IN /\ plTrace' = Append(plTrace, [stage |-> stage, kind |-> o.kind])
          /\ CASE o.kind = "next" ->
                    /\ plIdx' = plIdx + 1
                    /\ UNCHANGED <<plPc, plResp, plAfterPanic>>
               [] o.kind = "respond" ->
                    /\ plPc' = "done"
                    /\ plResp' = [status |-> o.status, body |-> o.body]
                    /\ UNCHANGED <<plIdx, plAfterPanic>>
               [] OTHER ->
                    /\ plPc' = "done"
                    /\ plResp' = IF recovered THEN RecoveryResponse(o.body)
                                 ELSE NoPipelineResponse
                    /\ plAfterPanic' = TRUE
                    /\ UNCHANGED plIdx
    /\ UNCHANGED plReq
    /\ UNCHANGED <<sqVars, lsVars, bmVars, sdVars, cxVars, fwVars, regVars, lbVars, brVars, pxVars, now, rlVars>>

\* The response has been sent and the router is ready for the next request.
PlDone ==
    /\ plPc = "done"
    /\ plPc' = "idle"
    /\ plReq' = NoPipelineRequest
    /\ plIdx' = 0
    /\ plTrace' = << >>
    /\ plResp' = NoPipelineResponse
    /\ UNCHANGED plAfterPanic
    /\ UNCHANGED <<sqVars, lsVars, bmVars, sdVars, cxVars, fwVars, regVars, lbVars, brVars, pxVars, now, rlVars>>

(***************************************************************************)
(* One forwarded call and the inbound client's connection.                 *)
(***************************************************************************)
\* http.Client{Timeout: 30 * time.Second}
OutboundTimeout == 30

InitCall ==
    /\ cxPc = "idle"
    /\ cxElapsed = 0
    /\ cxClient = "connected"
    /\ cxGoneAt = 0
    /\ cxEnd = ""

\* forwardRequest calls client.Do for a request made by http.NewRequest, whose
\* context is context.Background().
CxDo ==
    /\ cxPc \in {"idle", "done"}
    /\ cxPc' = "inflight"
    /\ cxElapsed' = 0
    /\ cxClient' = "connected"
    /\ cxGoneAt' = 0
    /\ cxEnd' = ""
    /\ UNCHANGED <<sqVars, lsVars, bmVars, sdVars, plVars, fwVars, regVars, lbVars, brVars, pxVars, now, rlVars>>

\* A second passes while the backend has not answered.
CxTick ==
    /\ cxPc = "inflight"
    /\ cxElapsed < OutboundTimeout
    /\ cxElapsed' = cxElapsed + 1
    /\ UNCHANGED <<cxPc, cxClient, cxGoneAt, cxEnd>>
    /\ UNCHANGED <<sqVars, lsVars, bmVars, sdVars, plVars, fwVars, regVars, lbVars, brVars, pxVars, now, rlVars>>

\* The inbound client closes its connection: the inbound request's context is
\* cancelled, which the outbound request does not derive from.
CxDisconnect ==
    /\ cxPc = "inflight"
    /\ cxClient = "connected"
    /\ cxClient' = "gone"
    /\ cxGoneAt' = cxElapsed
    /\ UNCHANGED <<cxPc, cxElapsed, cxEnd>>
    /\ UNCHANGED <<sqVars, lsVars, bmVars, sdVars, plVars, fwVars, regVars, lbVars, brVars, pxVars, now, rlVars>>

\* The backend answers: client.Do returns and the connection is released.
CxAnswer ==
    /\ cxPc = "inflight"
    /\ cxElapsed < OutboundTimeout
    /\ cxPc' = "done"
    /\ cxEnd' = "response"
    /\ UNCHANGED <<cxElapsed, cxClient, cxGoneAt>>
    /\ UNCHANGED <<sqVars, lsVars, bmVars, sdVars, plVars, fwVars, regVars, lbVars, brVars, pxVars, now, rlVars>>

\* The client's Timeout expires: client.Do returns an error.
CxTimeout ==
    /\ cxPc = "inflight"
    /\ cxElapsed = OutboundTimeout
    /\ cxPc' = "done"
    /\ cxEnd' = "timeout"
    /\ UNCHANGED <<cxElapsed, cxClient, cxGoneAt>>
    /\ UNCHANGED <<sqVars, lsVars, bmVars, sdVars, plVars, fwVars, regVars, lbVars, brVars, pxVars, now, rlVars>>

(***************************************************************************)
(* The server's life: ListenAndServe, the signal, Shutdown with its grace  *)
(* period.                                                                 *)
(***************************************************************************)
\* context.WithTimeout(context.Background(), 30*time.Second)
GracePeriod == 30

\* A slip main could make: the listener stays open while Shutdown waits.
AcceptingUntilStopped(phase) == phase # "stopped"

\* The listener accepts until server.Shutdown closes it.
Accepting(phase) == phase = "serving"

InitShutdown ==
    /\ sdPhase = "serving"
    /\ sdInflight = 0
    /\ sdGrace = 0
    /\ sdHow = ""
    /\ sdLate = FALSE

\* The server accepts a connection and starts to serve its request.
SdAccept ==
    /\ Accepting(sdPhase)
    /\ sdInflight < MaxInflight
    /\ sdInflight' = sdInflight + 1
    /\ sdLate' = (sdLate \/ sdPhase # "serving")
    /\ UNCHANGED <<sdPhase, sdGrace, sdHow>>
    /\ UNCHANGED <<sqVars, lsVars, bmVars, cxVars, plVars, fwVars, regVars, lbVars, brVars, pxVars, now, rlVars>>

\* A request in service finishes and its connection is closed or idle.
SdFinish ==
    /\ sdPhase # "stopped"
    /\ sdInflight > 0
    /\ sdInflight' = sdInflight - 1
    /\ UNCHANGED <<sdPhase, sdGrace, sdHow, sdLate>>
    /\ UNCHANGED <<sqVars, lsVars, bmVars, cxVars, plVars, fwVars, regVars, lbVars, brVars, pxVars, now, rlVars>>

\* SIGINT or SIGTERM arrives: main calls server.Shutdown with the grace
\* period, which closes the listener.
SdSignal ==
    /\ sdPhase = "serving"
    /\ sdPhase' = "draining"
    /\ sdGrace' = 0
    /\ UNCHANGED <<sdInflight, sdHow, sdLate>>
    /\ UNCHANGED <<sqVars, lsVars, bmVars, cxVars, plVars, fwVars, regVars, lbVars, brVars, pxVars, now, rlVars>>

\* A second of the grace period passes while Shutdown waits for the requests
\* in service.
SdTick ==
    /\ sdPhase = "draining"
    /\ sdInflight > 0
    /\ sdGrace < GracePeriod
    /\ sdGrace' = sdGrace + 1
    /\ UNCHANGED <<sdPhase, sdInflight, sdHow, sdLate>>
    /\ UNCHANGED <<sqVars, lsVars, bmVars, cxVars, plVars, fwVars, regVars, lbVars, brVars, pxVars, now, rlVars>>

\* No request is in service: Shutdown returns nil and main returns.
SdDrained ==
    /\ sdPhase = "draining"
    /\ sdInflight = 0
    /\ sdPhase' = "stopped"
    /\ sdHow' = "drained"
    /\ UNCHANGED <<sdInflight, sdGrace, sdLate>>
    /\ UNCHANGED <<sqVars, lsVars, bmVars, cxVars, plVars, fwVars, regVars, lbVars, brVars, pxVars, now, rlVars>>

\* The grace period is over: Shutdown returns the context's error and
\* log.Fatal ends the process with the requests still in service.
SdExpire ==
    /\ sdPhase = "draining"
    /\ sdInflight > 0
    /\ sdGrace = GracePeriod
    /\ sdPhase' = "stopped"
    /\ sdHow' = "expired"
    /\ UNCHANGED <<sdInflight, sdGrace, sdLate>>
    /\ UNCHANGED <<sqVars, lsVars, bmVars, cxVars, plVars, fwVars, regVars, lbVars, brVars, pxVars, now, rlVars>>

(***************************************************************************)
(* BreakerManager.GetBreaker step by step: the lookup under the read lock, *)
(* and for a caller that found nothing the section under the write lock.   *)
(* A breaker instance is the number of its construction.                   *)
(***************************************************************************)
BmProcs == {1, 2, 3}

\* A slip GetBreaker could make: no second look under the write lock.
LockedGetNoRecheck(m, made, name) ==
    LET id == Len(made) + 1
    IN [map |-> MapPut(m, name, id), made |-> Append(made, name), breaker |-> id]

\* GetBreaker under bm.mu.Lock: the second look, and the construction and
\* storing of the breaker when the name is still absent.
LockedGet(m, made, name) ==
    IF name \in DOMAIN m
    THEN [map |-> m, made |-> made, breaker |-> m[name]]
    ELSE LET id == Len(made) + 1
         IN [map |-> MapPut(m, name, id), made |-> Append(made, name), breaker |-> id]

InitManager ==
    /\ bmMap = EmptyMap
    /\ bmMade = << >>
    /\ bmPc = [p \in BmProcs |-> "idle"]
    /\ bmArg = [p \in BmProcs |-> ""]
    /\ bmGot = {}
    /\ bmCalls = 0

\* GetBreaker under bm.mu.RLock: a breaker that exists is returned; otherwise
\* the read lock is released and the caller goes for the write lock.
BmLookup(p, name) ==
    /\ bmPc[p] = "idle"
    /\ bmCalls < MaxGets
    /\ bmCalls' = bmCalls + 1
    /\ IF name \in DOMAIN bmMap
       THEN /\ bmGot' = bmGot \cup {<<name, bmMap[name], "found">>}
            /\ UNCHANGED <<bmPc, bmArg>>
       ELSE /\ bmPc' = [bmPc EXCEPT ![p] = "missed"]
            /\ bmArg' = [bmArg EXCEPT ![p] = name]
            /\ UNCHANGED bmGot
    /\ UNCHANGED <<bmMap, bmMade>>
    /\ UNCHANGED <<sqVars, lsVars, sdVars, cxVars, plVars, fwVars, regVars, lbVars, brVars, pxVars, now, rlVars>>

\* GetBreaker under bm.mu.Lock, held until the function returns.
BmLocked(p) ==
    /\ bmPc[p] = "missed"
    /\ LET r == LockedGet(bmMap, bmMade, bmArg[p])
       IN /\ bmMap' = r.map
          /\ bmMade' = r.made
          /\ bmGot' = bmGot \cup {<<bmArg[p], r.breaker,
                                     IF r.made = bmMade THEN "rechecked" ELSE "created">>}
    /\ bmPc' = [bmPc EXCEPT ![p] = "idle"]
    /\ bmArg' = [bmArg EXCEPT ![p] = ""]
    /\ UNCHANGED bmCalls
    /\ UNCHANGED <<sqVars, lsVars, sdVars, cxVars, plVars, fwVars, regVars, lbVars, brVars, pxVars, now, rlVars>>

(***************************************************************************)
(* ProxyHandler.ListServices: Registry.List under the read lock, then the  *)
(* response is encoded from the entries the returned slice points to, one  *)
(* entry after the other, with no lock held.                               *)
(***************************************************************************)
InitListServices ==
    /\ lsPc = "idle"
    /\ lsTodo = {}
    /\ lsOut = EmptyMap
    /\ lsViews = {}

\* services := p.registry.List()
LsList ==
    /\ lsPc = "idle"
    /\ lsTodo' = List(services)
    /\ lsOut' = EmptyMap
    /\ lsViews' = {View(heap, services)}
    /\ lsPc' = IF List(services) = {} THEN "done" ELSE "encoding"
    /\ UNCHANGED <<sqVars, bmVars, sdVars, cxVars, plVars, fwVars, regVars, lbVars, brVars, pxVars, now, rlVars>>

\* utils.SuccessResponse encodes the next entry of the slice: the fields of
\* the Service it points to are read as they are now.
LsEncode(i) ==
    /\ lsPc = "encoding"
    /\ i \in lsTodo
    /\ lsOut' = MapPut(lsOut, i, heap[i])
    /\ lsTodo' = lsTodo \ {i}
    /\ lsPc' = IF lsTodo = {i} THEN "done" ELSE "encoding"
    /\ UNCHANGED lsViews
    /\ UNCHANGED <<sqVars, bmVars, sdVars, cxVars, plVars, fwVars, regVars, lbVars, brVars, pxVars, now, rlVars>>

\* The response has been sent; the handler is free for the next request.
LsDone ==
    /\ lsPc = "done"
    /\ lsPc' = "idle"
    /\ lsTodo' = {}
    /\ lsOut' = EmptyMap
    /\ lsViews' = {}
    /\ UNCHANGED <<sqVars, bmVars, sdVars, cxVars, plVars, fwVars, regVars, lbVars, brVars, pxVars, now, rlVars>>

\* No request is being forwarded.
InitForward ==
    /\ fwdPc = "idle"
    /\ inReq = NoRequest
    /\ outReq = [Header |-> EmptyMap]
    /\ backResp = NoResponse
    /\ cliResp = NoResponse

Init ==
    /\ InitRegistry
    /\ InitLB
    /\ InitBreakers
    /\ InitProxy
    /\ InitRL
    /\ InitForward
    /\ InitPipeline
    /\ InitCall
    /\ InitShutdown
    /\ InitManager
    /\ InitListServices
    /\ InitSequential
    /\ now = 1

NextLB ==
    \/ \E n \in ServiceNames, u \in UrlLists, hp \in HealthPaths : Register(n, u, hp)
    \/ \E n \in ServiceNames : Unregister(n)
    \/ \E id \in 1..Len(heap) : LBRoundRobin(id)

SpecLB == Init /\ [][NextLB]_vars

\* The requests of the breaker's specification: all of them reach the service
\* "users", whose backends answer or fail.
BreakerPaths == {<<"api", "v1", "users", "users", "7">>}
Outcomes == {[transportError |-> TRUE, status |-> 0, bodyError |-> FALSE]}
            \cup {[transportError |-> FALSE, status |-> c, bodyError |-> FALSE] : c \in {200, 404, 500}}

NextBreaker ==
    \/ \E p \in Procs, segs \in BreakerPaths : ProxyResolve(p, segs)
    \/ \E p \in Procs : ProxySelect(p)
    \/ \E p \in Procs : ProxyExecute(p)
    \/ \E p \in Procs, o \in Outcomes : ProxyComplete(p, o)
    \/ Tick

SpecBreaker == Init /\ [][NextBreaker]_vars

\* The requests of the proxy's specification, GET /api/v1/users/123 of the API
\* documentation among them, while the administrator changes the registry.
ProxyPaths == {<<"api", "v1", "users", "123">>,
               <<"api", "v1", "users", "users", "123">>,
               <<"api", "v1", "orders", "">>}

NextProxy ==
    \/ \E n \in ServiceNames, hp \in HealthPaths : Register(n, <<"a", "b">>, hp)
    \/ \E n \in ServiceNames : Unregister(n)
    \/ \E n \in ServiceNames, a \in BOOLEAN : SetActive(n, a)
    \/ \E segs \in ProxyPaths : ProxyResolve(1, segs)
    \/ ProxySelect(1)
    \/ ProxyExecute(1)
    \/ \E o \in Outcomes : ProxyComplete(1, o)

SpecProxy == Init /\ [][NextProxy]_vars

NextRL ==
    \/ \E p \in Procs, ip \in ClientIPs, ok \in BOOLEAN : RLRead(p, ip, ok)
    \/ \E p \in Procs, ok \in BOOLEAN : RLDecide(p, ok)
    \/ RLTick

SpecRL == Init /\ [][NextRL]_vars

\* The registry under any sequence of its operations and lookups.
NextRegistry ==
    \/ \E n \in ServiceNames, u \in UrlLists, hp \in HealthPaths : Register(n, u, hp)
    \/ \E n \in ServiceNames : Unregister(n)
    \/ \E n \in ServiceNames, a \in BOOLEAN : SetActive(n, a)
    \/ \E n \in ServiceNames : RegistryGet(n)

SpecRegistry == Init /\ [][NextRegistry]_vars

\* The registry's operations while callers of List hold what it returned.
NextList ==
    \/ \E n \in ServiceNames, u \in UrlLists, hp \in HealthPaths : Register(n, u, hp)
    \/ \E n \in ServiceNames : Unregister(n)
    \/ \E n \in ServiceNames, a \in BOOLEAN : SetActive(n, a)
    \/ RegistryList

SpecList == Init /\ [][NextList]_vars

\* Sequential requests for the service "users" while both of its instances
\* answer: one request at a time goes through ProxyRequest.
HealthyOutcomes == {[transportError |-> FALSE, status |-> c, bodyError |-> FALSE] : c \in {200, 404}}

NextEndToEnd ==
    \/ \E segs \in BreakerPaths : ProxyResolve(1, segs)
    \/ ProxySelect(1)
    \/ ProxyExecute(1)
    \/ \E o \in HealthyOutcomes : ProxyComplete(1, o)
    \/ Tick

SpecEndToEnd == Init /\ [][NextEndToEnd]_vars

NextCall ==
    \/ CxDo
    \/ CxTick
    \/ CxDisconnect
    \/ CxAnswer
    \/ CxTimeout

SpecCall == Init /\ [][NextCall]_vars

NextShutdown ==
    \/ SdAccept
    \/ SdFinish
    \/ SdSignal
    \/ SdTick
    \/ SdDrained
    \/ SdExpire

\* Time passes and Shutdown goes on; a request in service need not finish.
SpecShutdown ==
    /\ Init
    /\ [][NextShutdown]_vars
    /\ WF_vars(SdTick)
    /\ WF_vars(SdDrained)
    /\ WF_vars(SdExpire)

NextManager ==
    \/ \E p \in BmProcs, n \in ServiceNames : BmLookup(p, n)
    \/ \E p \in BmProcs : BmLocked(p)

SpecManager == Init /\ [][NextManager]_vars

\* The admin's ListServices request beside the writers of the registry.
NextListServices ==
    \/ \E n \in ServiceNames : Register(n, <<"a", "b">>, "/health")
    \/ \E n \in ServiceNames : Unregister(n)
    \/ \E n \in ServiceNames, a \in BOOLEAN : SetActive(n, a)
    \/ LsList
    \/ \E i \in lsTodo : LsEncode(i)
    \/ LsDone

SpecListServices == Init /\ [][NextListServices]_vars

\* One client that sends its requests one after the other, and the clock.
NextSequential ==
    \/ \E ip \in ClientIPs, okRead \in BOOLEAN, okWrite \in BOOLEAN :
           SeqRequest(ip, okRead, okWrite)
    \/ RLTick

SpecSequential == Init /\ [][NextSequential]_vars

\* Requests to a service whose backends answer every call, from clients
\* that may send a path that is no URL or break off their request's body.
MalformedPaths == {<<"api", "v1", "users", "users", "7">>,
                   <<"api", "v1", "users", "users", "%zz">>}
ClientOutcomes == HealthyOutcomes
                  \cup {[transportError |-> FALSE, status |-> 0, bodyError |-> TRUE]}

NextMalformed ==
    \/ \E segs \in MalformedPaths : ProxyResolve(1, segs)
    \/ ProxySelect(1)
    \/ ProxyExecute(1)
    \/ \E o \in ClientOutcomes : ProxyComplete(1, o)
    \/ Tick

SpecMalformed == Init /\ [][NextMalformed]_vars

\* Proxied requests, to a registered service and to an unknown one, while
\* the service is unregistered and registered again with other instance
\* lists, the empty one included; the backend answers or fails, so that the
\* breaker opens.
CursorPaths == {<<"api", "v1", "users", "users", "7">>,
                <<"api", "v1", "users", "123">>}
CursorOutcomes == {[transportError |-> TRUE, status |-> 0, bodyError |-> FALSE],
                   [transportError |-> FALSE, status |-> 200, bodyError |-> FALSE]}

NextCursor ==
    \/ \E u \in UrlLists : Register("users", u, "/health")
    \/ Unregister("users")
    \/ \E segs \in CursorPaths : ProxyResolve(1, segs)
    \/ ProxySelect(1)
    \/ ProxyExecute(1)
    \/ \E o \in CursorOutcomes : ProxyComplete(1, o)

SpecCursor == Init /\ [][NextCursor]_vars

NextPipeline ==
    \/ PlArrive
    \/ PlStep
    \/ PlDone

SpecPipeline == Init /\ [][NextPipeline]_vars

NextForward ==
    \/ FwdSend
    \/ FwdDo
    \/ FwdRelay
    \/ FwdDone

SpecForward == Init /\ [][NextForward]_vars

(***************************************************************************)
(* C1: for a service whose list of k instances does not change, the        *)
(* RoundRobin calls, in the order the balancer serialises them, return the *)
(* instances in cyclic list order starting from the persisted cursor: the  *)
(* i-th call of the run returns the instance at position                   *)
(* (start + i - 1) mod k, so k consecutive calls return each position      *)
(* once, call k+1 repeats call 1, and N calls with k | N return each       *)
(* position N/k times.                                                     *)
(***************************************************************************)
PickCount(run, pos, n) ==
    Cardinality({i \in 1..n : (run.start + i - 1) % Len(run.urls) = pos
                              /\ run.picks[i] = run.urls[pos + 1]})

C1_RoundRobinCyclic ==
    \A name \in DOMAIN rrLog :
        LET run == rrLog[name]
            k == Len(run.urls)
        IN /\ \A i \in 1..Len(run.picks) :
                  run.picks[i] = run.urls[((run.start + i - 1) % k) + 1]
           /\ \A i \in 1..Len(run.picks) :
                  i > k => run.picks[i] = run.picks[i - k]
           /\ \A n \in 1..Len(run.picks) :
                  n % k = 0 => \A pos \in 0..(k - 1) : PickCount(run, pos, n) = n \div k

\* A run on three instances that went round twice, from a cursor that an
\* earlier run had left at a position other than the first.
C1_Witness ==
    \E name \in DOMAIN rrLog :
        /\ Len(rrLog[name].urls) = 3
        /\ Len(rrLog[name].picks) = 6
        /\ rrLog[name].start # 0

(***************************************************************************)
(* C2: a proxied request to /api/v1/{service}/{rest} is resolved against   *)
(* the registry entry named {service} and forwarded to one of its          *)
(* instances with path /{rest} (GET /api/v1/users/123 goes to `users` as   *)
(* GET /123).                                                              *)
(***************************************************************************)
C2_ResolvedByRouteSegment ==
    ev.type \in {"resolve", "before"} =>
        /\ ev.serviceName = ev.req[3]
        /\ ev.remainingPath = SubSeq(ev.req, 4, Len(ev.req))

(***************************************************************************)
(* C3: starting from a Closed breaker, once `threshold` consecutive        *)
(* forwarded calls for a service have failed with no success in between,   *)
(* the breaker is Open (and the very next call is rejected).               *)
(***************************************************************************)
C3_OpenAfterThresholdFailures ==
    \A name \in DOMAIN breakers :
        breakers[name].state = "closed" => HistOf(name).failRun < Threshold

(***************************************************************************)
(* What the breaker does guarantee about opening: once `threshold`         *)
(* consecutive calls admitted and completed within one counting period of  *)
(* the Closed state (a period ends when the state changes and every        *)
(* Interval) have failed with no success in between, the breaker is Open,  *)
(* and the next call for the service, if it arrives before the timeout has *)
(* elapsed, is rejected without invoking the operation.                    *)
(***************************************************************************)
OpensWithinOnePeriod ==
    /\ \A name \in DOMAIN breakers :
           (breakers[name].state = "closed"
            /\ HistOf(name).runGen = breakers[name].generation)
               => HistOf(name).run < Threshold
    /\ (ev.type = "after" /\ ev.run >= Threshold /\ ev.sameGeneration
        /\ ev.stateBefore = "closed" /\ ev.outcome.transportError)
           => ev.stateAfter = "open"
    /\ (ev.type = "before" /\ ev.afterTrip /\ ev.sinceOpen <= Timeout)
           => ~ev.admitted /\ ev.stateAfter = "open" /\ pc[ev.p] = "idle"

\* The call that follows the threshold-th failure is rejected.
RejectedAfterTrip ==
    /\ ev.type = "before"
    /\ ev.afterTrip
    /\ ~ev.admitted

(***************************************************************************)
(* C4: a backend response with status >= 500 is recorded by the breaker as *)
(* a failure (the consecutive-failure counter grows, or the breaker        *)
(* opens); a response with status < 500 is recorded as a success.          *)
(***************************************************************************)
C4_ServerErrorIsFailure ==
    (ev.type = "after" /\ ev.sameGeneration /\ ev.stateBefore = "closed"
     /\ ~ev.outcome.transportError)
        => IF ev.outcome.status >= 500
           THEN ev.failuresAfter = ev.failuresBefore + 1 \/ ev.stateAfter = "open"
           ELSE ev.failuresAfter = 0 /\ ev.stateAfter = "closed"

(***************************************************************************)
(* C5: while a breaker is Open and its timeout has not elapsed since it    *)
(* entered Open, every call for the service is rejected without invoking   *)
(* the backend; the first call after the timeout has elapsed moves the     *)
(* breaker to Half-Open and is attempted as a trial.                       *)
(***************************************************************************)
C5_OpenRejectsUntilTimeout ==
    (ev.type = "before" /\ ev.stateBefore = "open") =>
        /\ ev.sinceOpen < Timeout =>
               /\ ~ev.admitted
               /\ ev.stateAfter = "open"
               /\ ev.status = 503
               /\ pc[ev.p] = "idle"
        /\ ev.sinceOpen > Timeout =>
               /\ ev.admitted
               /\ ev.stateAfter = "half-open"
               /\ pc[ev.p] = "inflight"
               /\ loc[ev.p].trialEpisode # 0

\* A call is rejected by an Open breaker, and a later one is the trial.
C5_Witness ==
    /\ ev.type = "before"
    /\ ev.stateBefore = "open"
    /\ ev.sinceOpen > Timeout
    /\ ev.admitted

C7_ClosesWhenAllTrialsSucceed ==
    /\ (ev.type = "after" /\ ev.stateBefore = "half-open") =>
           /\ ev.stateAfter = "closed" <=>
                  (ev.currentTrial /\ ~ev.outcome.transportError
                   /\ ev.trialSuccesses = MaxRequests)
           /\ ev.stateAfter = "closed" => ev.failuresAfter = 0
           /\ (MaxRequests = 1 /\ ev.currentTrial /\ ~ev.outcome.transportError)
                  => ev.stateAfter = "closed"
    /\ (ev.type = "after" /\ ev.stateBefore # "closed" /\ ev.stateAfter = "closed")
           => ev.stateBefore = "half-open"
    /\ (ev.type = "before" /\ ev.stateBefore # "closed") => ev.stateAfter # "closed"

\* The last of the permitted trials succeeds and the breaker closes.
C7_Witness ==
    /\ ev.type = "after"
    /\ ev.stateBefore = "half-open"
    /\ ev.stateAfter = "closed"

(***************************************************************************)
(* C8: while a breaker is Half-Open at most the configured maximum number  *)
(* of trial requests are admitted, counting all concurrent callers; every  *)
(* further request arriving at that cap is rejected as Unavailable without *)
(* invoking the backend.                                                   *)
(***************************************************************************)
C8_TrialCap ==
    /\ \A name \in DOMAIN brHist : brHist[name].hoAdmitted <= MaxRequests
    /\ (ev.type = "before" /\ ev.stateAfter = "half-open") =>
           /\ ev.admitted <=> ev.admittedBefore < MaxRequests
           /\ ~ev.admitted => ev.status = 503 /\ pc[ev.p] = "idle"

\* A request arrives at the cap and is rejected.
C8_Witness ==
    /\ ev.type = "before"
    /\ ev.stateAfter = "half-open"
    /\ ev.admittedBefore = MaxRequests
    /\ ~ev.admitted

(***************************************************************************)
(* C9: a client whose bucket does not exist and who issues capacity + 1    *)
(* sequential requests within a span shorter than the refill period        *)
(* (window / capacity) is admitted on the first `capacity` of them and     *)
(* rejected with 429 on the (capacity + 1)th.                              *)
(***************************************************************************)
C9_BurstOfCapacityPlusOne ==
    (rlEv.type = "decide" /\ rlEv.nth \in 1..(Requests + 1)) =>
        /\ rlEv.admittedBefore = rlEv.nth - 1
        /\ rlEv.nth <= Requests => rlEv.next
        /\ rlEv.nth = Requests + 1 => rlEv.status = 429

(***************************************************************************)
(* C10: the read-modify-write of a bucket is atomic per client key: no two *)
(* requests of one client read the same stored value of the bucket and are *)
(* both admitted on it (stated for the runs in which no Redis command has  *)
(* failed).                                                                *)
(***************************************************************************)
C10_NoTwoAdmittedOnOneRead ==
    (rlEv.type = "decide" /\ rlEv.next /\ rlFaults = 0) => ~rlEv.admittedOnIt

(***************************************************************************)
(* C11: for a client whose bucket exists the limiter computes              *)
(* tokens = min(capacity, stored + elapsed * capacity / windowSeconds); if *)
(* tokens < 1 the request is rejected with 429, remaining 0 and            *)
(* Retry-After = ceil((1 - tokens) / refillRate), and the chain does not   *)
(* go on; otherwise one token is consumed, the new count and timestamp =   *)
(* now are persisted, and the request is admitted with remaining =         *)
(* floor(tokens) (stated for requests whose bucket write does not fail;    *)
(* token counts are multiplied by Window).                                 *)
(***************************************************************************)
C11_RefillRejectOrConsume ==
    (rlEv.type = "decide" /\ ~rlEv.fresh /\ ~rlEv.writeErr) =>
        LET sum == rlEv.stored + rlEv.elapsed * Requests
            capped == IF sum > Requests * Window THEN Requests * Window ELSE sum
            short == Window - capped
        IN /\ rlEv.tokens = capped
           /\ IF capped < Window
              THEN /\ rlEv.status = 429
                   /\ ~rlEv.next
                   /\ rlEv.headers.set
                   /\ rlEv.headers.remaining = 0
                   /\ rlEv.headers.retryAfter * Requests >= short
                   /\ (rlEv.headers.retryAfter - 1) * Requests < short
              ELSE /\ rlEv.next
                   /\ store[rlEv.ip].exists
                   /\ store[rlEv.ip].tokens = capped - Window
                   /\ store[rlEv.ip].timestamp = rlEv.nowSec
                   /\ rlEv.headers.set
                   /\ rlEv.headers.remaining * Window <= capped - Window
                   /\ (rlEv.headers.remaining + 1) * Window > capped - Window

\* A request is admitted on a refilled bucket that holds a fraction of a token more.
C11_Witness ==
    /\ rlEv.type = "decide"
    /\ rlEv.next
    /\ ~rlEv.fresh
    /\ rlEv.elapsed > 0
    /\ rlEv.tokens % Window # 0

(***************************************************************************)
(* C12: a bucket is forgotten only after about twice the window of         *)
(* inactivity: when Redis forgets a client's bucket the client's last      *)
(* request arrived about 2 * window earlier (so a client whose requests    *)
(* are less than 2 * window apart keeps its bucket), and the next request  *)
(* of a client whose bucket has been forgotten creates it again.  "About"  *)
(* is read generously: more than one window of inactivity is asked for,    *)
(* in the runs in which no Redis command has failed.                       *)
(***************************************************************************)
C12_ForgottenOnlyWhenIdle ==
    /\ (rlEv.type = "expire" /\ rlFaults = 0) =>
           \A ip \in rlEv.ips : rlEv.idle[ip] > Window * TicksPerSec
    /\ (rlEv.type = "decide" /\ rlEv.fresh /\ rlEv.next) => store[rlEv.ip].exists

(***************************************************************************)
(* C13: the request that follows at least one full window without any      *)
(* request of the client observes a full bucket: `capacity` tokens when    *)
(* the bucket is still there (a new bucket, which starts at capacity - 1   *)
(* after admitting the request, when it has been forgotten), and no        *)
(* request ever observes more than `capacity` tokens, however long the     *)
(* client was idle.  Token counts are multiplied by Window.                *)
(***************************************************************************)
C13_FullAfterIdleWindow ==
    (rlEv.type = "decide" /\ ~rlEv.readErr) =>
        /\ rlEv.tokens <= Requests * Window
        /\ (rlEv.gap >= Window * TicksPerSec /\ ~rlEv.overlapped) =>
               IF rlEv.fresh
               THEN rlEv.next => store[rlEv.ip].tokens = (Requests - 1) * Window
               ELSE rlEv.tokens = Requests * Window

\* A bucket that was not full is observed full after a window without requests.
C13_Witness ==
    /\ rlEv.type = "decide"
    /\ ~rlEv.fresh
    /\ ~rlEv.overlapped
    /\ rlEv.gap >= Window * TicksPerSec
    /\ rlEv.stored < Requests * Window
    /\ rlEv.tokens = Requests * Window

(***************************************************************************)
(* C14: when the registry lookup or the instance selection fails,          *)
(* ProxyRequest makes no backend call and responds 404 if the service name *)
(* is absent from the registry, and 503 if the service is present but      *)
(* inactive or its instance list is empty.                                 *)
(***************************************************************************)
C14_LookupFailureStatus ==
    /\ ev.type = "resolve" =>
           LET name == ev.serviceName
           IN /\ name \notin DOMAIN services =>
                     ev.status = 404 /\ pc[ev.p] = "idle"
              /\ (name \in DOMAIN services /\ ~heap[services[name]].Active) =>
                     ev.status = 503 /\ pc[ev.p] = "idle"
    /\ (ev.type = "select" /\ ev.instances = 0) =>
           ev.status = 503 /\ pc[ev.p] = "idle"

(***************************************************************************)
(* C15: when the breaker rejects a call (Open, or Half-Open at its trial   *)
(* cap) or the forwarded call fails in transport, the client receives 503  *)
(* with the fixed generic message and no text of the underlying error; on  *)
(* breaker rejection the backend is not called.                            *)
(***************************************************************************)
C15_GenericUnavailable ==
    /\ (ev.type = "before" /\ ~ev.admitted) =>
           /\ ev.status = 503
           /\ ev.message = "Service temporarily unavailable"
           /\ ev.message # ev.err
           /\ pc[ev.p] = "idle"
    /\ (ev.type = "after" /\ ev.outcome.transportError) =>
           /\ ev.status = 503
           /\ ev.message = "Service temporarily unavailable"
           /\ ev.message # ev.err

\* A forwarded call fails in transport and the client is answered.
C15_Witness ==
    /\ ev.type = "after"
    /\ ev.outcome.transportError
    /\ ev.err # ""
    /\ ev.status = 503


(***************************************************************************)
(* Forwarded headers                                                       *)
(***************************************************************************)
\* The three headers forwardRequest sets itself after the copy.
ForwardingHeaders == {"X-Forwarded-For", "X-Forwarded-Proto", "X-Forwarded-Host"}

\* The names that match one of the eight hop-by-hop names whatever their case.
MatchesHopByHop(name) == ToLower(name) \in {ToLower(h) : h \in HopByHopHeaders}

\* C16 as stated: the outbound request carries every inbound header with all
\* its values, except the headers whose name matches one of the eight
\* hop-by-hop names, and none of these is on the outbound request.
C16_AllButHopByHop ==
    fwdPc = "sent" =>
        /\ \A k \in DOMAIN inReq.Header :
              ~MatchesHopByHop(k) =>
                  k \in DOMAIN outReq.Header /\ outReq.Header[k] = inReq.Header[k]
        /\ \A k \in DOMAIN outReq.Header : ~MatchesHopByHop(k)

\* C16: the outbound request carries every inbound header with all its values,
\* except the headers whose name matches one of the eight hop-by-hop names,
\* whatever its case, and except X-Forwarded-For, X-Forwarded-Proto and
\* X-Forwarded-Host, which it carries with the one value the gateway sets;
\* no hop-by-hop header is on the outbound request.
C16_AllButHopByHopAndForwarding ==
    fwdPc = "sent" =>
        /\ \A k \in DOMAIN inReq.Header :
              (~MatchesHopByHop(k) /\ k \notin ForwardingHeaders) =>
                  k \in DOMAIN outReq.Header /\ outReq.Header[k] = inReq.Header[k]
        /\ \A k \in DOMAIN outReq.Header : ~MatchesHopByHop(k)
        /\ \A k \in ForwardingHeaders :
              k \in DOMAIN outReq.Header /\ Len(outReq.Header[k]) = 1

\* An inbound request with a two-valued Accept header and an Upgrade header in
\* capitals has been turned into an outbound request.
C16_Witness ==
    /\ fwdPc = "sent"
    /\ DOMAIN inReq.Header = {"Accept", "UPGRADE"}
    /\ Len(inReq.Header["Accept"]) = 2
    /\ inReq.Header["Accept"][1] # inReq.Header["Accept"][2]
    /\ outReq.Header["Accept"] = inReq.Header["Accept"]

\* The inbound requests that differ from req at most in their X-Forwarded-For
\* header.
SameButForwardedFor(req) ==
    {[req EXCEPT !.Header = h] :
        h \in {MapDelete(req.Header, "X-Forwarded-For")}
                \cup {MapPut(req.Header, "X-Forwarded-For", vs) :
                         vs \in ValueLists(RequestHeaderValues)}}

\* C17: the outbound X-Forwarded-For is the address the inbound request came
\* from, and an inbound request from the same address that differs only in its
\* X-Forwarded-For header gets the same outbound X-Forwarded-For.
C17_ForwardedForIsClientAddress ==
    fwdPc = "sent" =>
        /\ outReq.Header["X-Forwarded-For"] = <<inReq.RemoteAddr>>
        /\ \A other \in SameButForwardedFor(inReq) :
              OutboundHeader(other)["X-Forwarded-For"] = outReq.Header["X-Forwarded-For"]

(***************************************************************************)
(* Relayed response                                                        *)
(***************************************************************************)
\* C18: once the backend's response is relayed, the client has the backend's
\* status code, every header of the backend with all its values in order, and
\* the backend's body.
C18_ResponseRelayedVerbatim ==
    fwdPc = "relayed" =>
        /\ cliResp.StatusCode = backResp.StatusCode
        /\ cliResp.Body = backResp.Body
        /\ \A k \in DOMAIN backResp.Headers :
              k \in DOMAIN cliResp.Headers /\ cliResp.Headers[k] = backResp.Headers[k]


(***************************************************************************)
(* Registry operations on an absent name, and lookups                      *)
(***************************************************************************)
\* C19: Unregister and SetActive called with a name that is not in the
\* registry return the error "service not found", and the registry after the
\* call is the registry before it: the same names with the same entries.
C19_AbsentNameLeavesRegistry ==
    (ev.type \in {"unregister", "setactive"} /\ ev.name \notin DOMAIN ev.services0) =>
        /\ ev.err = "service not found"
        /\ services = ev.services0
        /\ heap = ev.heap0

\* Unregister was called with a name that is not in a registry that holds
\* another service.
C19_Witness ==
    /\ ev.type = "unregister"
    /\ ev.name \notin DOMAIN ev.services0
    /\ ev.services0 # EmptyMap
    /\ ev.err = "service not found"

\* C20: whatever operations came before, Get(name) returns an entry and no
\* error exactly when the name is in the registry and its entry is active, and
\* the entry is the one stored under the name; otherwise it returns an error
\* and no entry.
C20_GetIffPresentAndActive ==
    ev.type = "get" =>
        LET ok == ev.name \in DOMAIN services /\ heap[services[ev.name]].Active
        IN /\ ok => (ev.err = "" /\ ev.svc = services[ev.name])
           /\ ~ok => (ev.err # "" /\ ev.svc = 0)

\* A lookup of a service that was registered and then marked inactive, in a
\* registry from which the other service has been removed.
C20_Witness ==
    /\ ev.type = "get"
    /\ ev.name \in DOMAIN services
    /\ ~heap[services[ev.name]].Active
    /\ ev.err = "service is inactive"
    /\ Len(heap) >= 2


(***************************************************************************)
(* Register                                                                *)
(***************************************************************************)
\* The entries of a registry: for every name, the Service stored under it.
Entries(h, svcs) == [n \in DOMAIN svcs |-> h[svcs[n]]]

\* C21: Register returns no error and leaves under the name one entry with the
\* given URLs and health path and active = true, whatever was there before;
\* every other name has the entry it had, and registering the same arguments
\* once more leaves the same entries.
C21_RegisterIdempotentOverwrite ==
    ev.type = "register" =>
        LET before == Entries(ev.heap0, ev.services0)
            after == Entries(heap, services)
            again == RegisterResult(heap, services, ev.name, ev.urls, ev.healthURL)
        IN /\ ev.err = ""
           /\ DOMAIN after = DOMAIN before \cup {ev.name}
           /\ after[ev.name] = Service(ev.name, ev.urls, ev.healthURL, TRUE)
           /\ \A n \in DOMAIN after \ {ev.name} : after[n] = before[n]
           /\ Entries(again.heap, again.services) = after

\* Register has replaced an inactive entry while another service was
\* registered.
C21_Witness ==
    /\ ev.type = "register"
    /\ ev.name \in DOMAIN ev.services0
    /\ ~ev.heap0[ev.services0[ev.name]].Active
    /\ DOMAIN ev.services0 # {ev.name}
    /\ heap[services[ev.name]].Active


(***************************************************************************)
(* List                                                                    *)
(***************************************************************************)
\* C22: whatever Register, Unregister or SetActive does after List returned,
\* every entry of the returned slice shows the name, URLs, health path and
\* active flag it showed when List returned.
C22_ListIsSnapshot ==
    listed.held => \A i \in listed.svcs : heap[i] = listed.seen[i]


(***************************************************************************)
(* Middleware pipeline                                                     *)
(***************************************************************************)
\* The place of a stage in the canonical order.
Rank(stage) ==
    CASE stage = "Recovery" -> 1
      [] stage = "RequestLogger" -> 2
      [] stage = "RequestID" -> 3
      [] stage = "CORS" -> 4
      [] stage = "SecurityHeaders" -> 5
      [] stage = "RateLimiter" -> 6
      [] stage = "JWTAuth" -> 7
      [] stage = "RoleAuth" -> 8
      [] OTHER -> 9

\* The stage was entered for the current request and passed it on.
Passed(stage) ==
    \E i \in 1..Len(plTrace) : plTrace[i].stage = stage /\ plTrace[i].kind = "next"

\* The stage was entered for the current request.
Entered(stage) == \E i \in 1..Len(plTrace) : plTrace[i].stage = stage

\* C23: the stages entered for a request begin with recovery and follow the
\* canonical order; no stage is entered after one that short-circuited; and a
\* proxy or admin handler is entered only after the rate limiter admitted the
\* request and authentication passed it, and for the admin handler after the
\* role check passed it too.
C23_CanonicalOrderAndGating ==
    /\ plTrace # << >> => plTrace[1].stage = "Recovery"
    /\ \A i, j \in 1..Len(plTrace) :
          i < j => /\ Rank(plTrace[i].stage) < Rank(plTrace[j].stage)
                   /\ plTrace[i].kind = "next"
    /\ Entered("ProxyRequest") => Passed("RateLimiter") /\ Passed("JWTAuth")
    /\ Entered("AdminHandler") =>
          Passed("RateLimiter") /\ Passed("JWTAuth") /\ Passed("RoleAuth")

\* The admin handler has answered a request, and so every stage of the
\* canonical order was entered.
C23_Witness ==
    /\ plPc = "done"
    /\ Entered("AdminHandler")
    /\ Len(plTrace) = 9
    /\ plResp.status = 200

\* C24: a request that reaches the handler of any endpoint went through the
\* rate limiter, and a request of a caller whose bucket is exhausted is
\* answered 429, whatever the endpoint.
C24_EveryEndpointRateLimited ==
    plPc = "done" =>
        /\ (\E h \in Handlers \ {"NoRoute"} : Entered(h)) => Entered("RateLimiter")
        /\ (/\ plReq.route # "noroute"
            /\ plReq.exhausted
            /\ plReq.fault = "none"
            /\ plReq.panicAt = "none"
            /\ ~plReq.preflight) => plResp.status = 429

\* C25: a request in which a stage or handler downstream of recovery panicked
\* is answered 500 with the generic body, which is not the panic's text, and
\* no stage was entered after the panic; a request served after a panic is
\* answered as usual.
C25_PanicBecomesGeneric500 ==
    /\ (plPc = "done" /\ plTrace[Len(plTrace)].kind = "panic") =>
          /\ plResp.status = 500
          /\ plResp.body = "Internal server error"
          /\ \A i \in 1..(Len(plTrace) - 1) : plTrace[i].kind = "next"
    /\ \A i \in 1..(Len(plTrace) - 1) : plTrace[i].kind # "panic"
    /\ (/\ plPc = "done"
        /\ plAfterPanic
        /\ plReq.route = "health"
        /\ plReq.panicAt = "none"
        /\ ~plReq.preflight) => plResp.status = 200

\* The proxy handler panicked in a request served after an earlier panic.
C25_Witness ==
    /\ plPc = "done"
    /\ plTrace[Len(plTrace)] = [stage |-> "ProxyRequest", kind |-> "panic"]
    /\ plResp.status = 500
    /\ plAfterPanic

(***************************************************************************)
(* Empty service name                                                      *)
(***************************************************************************)
\* C26: a proxied request whose service-name segment is empty is answered 400
\* when it is resolved, and goes no further: no instance is selected and no
\* backend is called for it.
C26_EmptyServiceNameIsBadRequest ==
    (ev.type = "resolve" /\ ev.serviceName = "") =>
        /\ ev.status = 400
        /\ pc[ev.p] = "idle"


(***************************************************************************)
(* End to end: sequential requests for a service with two instances        *)
(***************************************************************************)
\* The instances selected so far for the service "users".
UsersPicks == IF "users" \in DOMAIN rrLog THEN rrLog["users"].picks ELSE << >>

C28_DisconnectCancelsCall ==
    (cxClient = "gone" /\ cxElapsed > cxGoneAt) => (cxPc = "done" /\ cxEnd # "timeout")

(***************************************************************************)
(* Graceful shutdown                                                       *)
(***************************************************************************)
\* No request was accepted after the signal; the wait never exceeds the grace
\* period; and the server has stopped either with no request in service or at
\* the end of the grace period with some still in service.
ShutdownSafe ==
    /\ ~sdLate
    /\ sdGrace <= GracePeriod
    /\ sdPhase = "stopped" =>
          \/ sdHow = "drained" /\ sdInflight = 0
          \/ sdHow = "expired" /\ sdInflight > 0 /\ sdGrace = GracePeriod
    /\ sdPhase # "stopped" => sdHow = ""

\* C29: after SIGINT or SIGTERM the gateway accepts no request any more, waits
\* for the requests in service, and stops when none is left or when the 30
\* seconds of grace are over, whichever comes first; and it does stop.
C29_GracefulShutdown ==
    /\ []ShutdownSafe
    /\ (sdPhase = "draining") ~> (sdPhase = "stopped")

\* The gateway has stopped after waiting part of the grace period for the
\* requests in service to finish.
C29_Witness ==
    /\ sdPhase = "stopped"
    /\ sdHow = "drained"
    /\ sdGrace > 0
    /\ sdGrace < GracePeriod


(***************************************************************************)
(* One breaker per service name                                            *)
(***************************************************************************)
\* C30: however concurrent calls of GetBreaker interleave, at most one
\* breaker is constructed for a name, and every call for the name returns
\* that instance, the one the manager stores.
C30_OneBreakerPerName ==
    /\ \A i, j \in 1..Len(bmMade) : bmMade[i] = bmMade[j] => i = j
    /\ \A g \in bmGot : g[1] \in DOMAIN bmMap /\ g[2] = bmMap[g[1]]
    /\ \A n \in DOMAIN bmMap : bmMade[bmMap[n]] = n

\* Two callers missed the same name under the read lock: one constructed
\* the breaker, the other found it on its second look under the write lock,
\* and a later caller found it under the read lock.
C30_Witness ==
    \E n \in ServiceNames :
        /\ Len(bmMade) >= 1
        /\ {g[3] : g \in {h \in bmGot : h[1] = n}} = {"found", "rechecked", "created"}

(***************************************************************************)
(* C31: in every reachable state the token count stored for a client is    *)
(* within [0, capacity], for any interleaving of the client's requests and *)
(* any elapsed times between them (token counts are multiplied by Window). *)
(***************************************************************************)
C31_StoredTokensInRange ==
    \A ip \in ClientIPs :
        store[ip].exists =>
            /\ store[ip].tokens >= 0
            /\ store[ip].tokens <= Requests * Window

\* A request has just consumed the last whole token of a bucket that had
\* been refilled since it was written.
C31_Witness ==
    /\ rlEv.type = "decide"
    /\ ~rlEv.fresh
    /\ rlEv.next
    /\ rlEv.elapsed > 0
    /\ store[rlEv.ip].exists
    /\ store[rlEv.ip].tokens < Window

(***************************************************************************)
(* C32: after any sequence of Register, Unregister and RoundRobin          *)
(* operations (re-registering a name with a different number of instances  *)
(* included) the cursor stored for a service name is in [0, n), n being    *)
(* the number of instances currently registered under that name (stated    *)
(* for the names that are registered with at least one instance).          *)
(***************************************************************************)
C32_CursorWithinInstanceCount ==
    \A n \in DOMAIN counters :
        (n \in DOMAIN services /\ Len(heap[services[n]].URLs) > 0) =>
            /\ counters[n] >= 0
            /\ counters[n] < Len(heap[services[n]].URLs)

(***************************************************************************)
(* C33: while a breaker is Closed its consecutive-failure counter equals   *)
(* the number of failed calls since the most recent successful call (or    *)
(* since the breaker entered Closed): each failure adds one, each success  *)
(* resets it to zero, and the breaker leaves Closed only when that number  *)
(* reaches the threshold.                                                  *)
(***************************************************************************)
C33_CounterIsFailuresSinceSuccess ==
    /\ \A name \in DOMAIN breakers :
           breakers[name].state = "closed" =>
               breakers[name].counts.ConsecutiveFailures = HistOf(name).failRun
    /\ (ev.type = "after" /\ ev.stateBefore = "closed" /\ ev.stateAfter # "closed") =>
           HistOf(ev.serviceName).failRun >= Threshold

(***************************************************************************)
(* C34: Register, Unregister, Get, List and SetActive are linearizable     *)
(* with respect to each other, and a reader never observes a half-applied  *)
(* mutation of the map or of an entry's fields: what a reader of the       *)
(* registry has seen, here the entries ListServices wrote in its response, *)
(* is what the registry held at one moment between the reader's call of    *)
(* List and the end of its reading.                                        *)
(***************************************************************************)
C34_ReadersSeeOneRegistryState ==
    lsPc = "done" => {lsOut[i] : i \in DOMAIN lsOut} \in lsViews

(***************************************************************************)
(* C35: for sequential requests of one client, the number of requests      *)
(* admitted in any time interval of length T never exceeds                 *)
(* capacity + T * capacity / windowSeconds, in every reachable bucket      *)
(* state, those reached through the bucket's expiry and recreation         *)
(* included.  The bound is read generously: T is given one second more,    *)
(* the granularity of the limiter's timestamps, and the runs in which a    *)
(* Redis command failed are left out.  Times are in ticks.                 *)
(***************************************************************************)
C35_TokenBucketBound ==
    rlFaults = 0 =>
        \A i, j \in 1..Len(sqLog) :
            i <= j =>
                (j - i + 1) * Window * TicksPerSec
                    <= Requests * Window * TicksPerSec
                       + (sqLog[j] - sqLog[i] + TicksPerSec) * Requests

(***************************************************************************)
(* C36: only failures of the backend exchange count toward a service's     *)
(* breaker: a request that fails inside the gateway before any backend     *)
(* call is made (the target URL built from the client's path does not      *)
(* parse, or the client's request body cannot be read) does not increment  *)
(* the consecutive-failure counter, so a client cannot open a healthy      *)
(* service's breaker by sending malformed requests.                        *)
(***************************************************************************)
C36_OnlyBackendFailuresCount ==
    /\ (ev.type = "after" /\ ~ev.sent) =>
           /\ ev.failuresAfter = ev.failuresBefore
           /\ ev.stateAfter = ev.stateBefore
    /\ \A name \in DOMAIN breakers : breakers[name].state = "closed"

\* What a step of ProxyRequest does to the cursors (a step of ProxyRequest
\* starts a request or moves one on).
CursorStep ==
    (calls' # calls \/ pc' # pc) =>
    /\ (ev'.type = "select" /\ ev'.status = 0) =>
           /\ DOMAIN counters' = DOMAIN counters \cup {ev'.serviceName}
           /\ counters'[ev'.serviceName]
                  = (MapGetInt(counters, ev'.serviceName) + 1) % ev'.instances
           /\ \A n \in DOMAIN counters :
                  n # ev'.serviceName => counters'[n] = counters[n]
    /\ ((ev'.type \in {"resolve", "before", "after"})
            \/ (ev'.type = "select" /\ ev'.status # 0)) =>
           counters' = counters

(***************************************************************************)
(* C37: every proxied request that resolves its service and finds a        *)
(* non-empty instance list advances that service's cursor by exactly one   *)
(* (mod instance count), whether the breaker then admits or rejects the    *)
(* call and whether the forwarded call succeeds or fails; requests that    *)
(* fail resolution or find an empty list leave every cursor unchanged.     *)
(* Step by step: the selection on a non-empty list moves the service's     *)
(* cursor to (cursor + 1) mod instance count and no other cursor, and no   *)
(* other step of ProxyRequest changes any cursor.                          *)
(***************************************************************************)
C37_CursorAdvancesOncePerSelection == [][CursorStep]_vars

\* The breaker has just rejected a request whose selection had moved the
\* cursor of a three-instance service to its last position.
C37_Witness ==
    /\ ev.type = "before"
    /\ ~ev.admitted
    /\ ev.serviceName \in DOMAIN counters
    /\ counters[ev.serviceName] = 2

\* What a step of Register or Unregister does to the breakers and the cursors.
RegistryStep ==
    (ev'.type \in {"register", "unregister"} /\ (heap' # heap \/ services' # services)) =>
        /\ breakers' = breakers
        /\ counters' = counters

(***************************************************************************)
(* C38: Unregister and Register leave the breaker map and the cursor map   *)
(* unchanged: after a service name is unregistered and registered again    *)
(* (even with different instance URLs), its breaker is the same instance   *)
(* in the same state with the same counters (an Open breaker stays Open)   *)
(* and its cursor keeps its stored value.                                  *)
(***************************************************************************)
C38_RegistryLeavesBreakersAndCursors == [][RegistryStep]_vars

\* A name that had been unregistered has just been registered again with
\* another instance list; its breaker is Open and its cursor is not zero.
C38_Witness ==
    /\ ev.type = "register"
    /\ ev.name \notin DOMAIN ev.services0
    /\ ev.urls = <<"a", "b", "c">>
    /\ ev.name \in DOMAIN breakers
    /\ breakers[ev.name].state = "open"
    /\ ev.name \in DOMAIN counters
    /\ counters[ev.name] = 1

(***************************************************************************)
(* C39: a client rejected with 429 and Retry-After = r that sends no       *)
(* request for r seconds and then sends one request is admitted on that    *)
(* request (no other request of the client in between; stated for the runs *)
(* in which no Redis command has failed).  Times are in ticks.             *)
(***************************************************************************)
C39_AdmittedAfterRetryAfter ==
    (/\ rlFaults = 0
     /\ sqLast.afterReject
     /\ sqLast.waited >= sqLast.prevRetryAfter * TicksPerSec)
        => sqLast.next /\ sqLast.status = 0

\* A client rejected with Retry-After of one second has waited just that
\* long and is admitted on its bucket, which is still the same one.
C39_Witness ==
    /\ rlFaults = 0
    /\ sqLast.afterReject
    /\ sqLast.prevRetryAfter = 1
    /\ sqLast.waited = TicksPerSec
    /\ ~sqLast.fresh
    /\ sqLast.next

(***************************************************************************)
(* C40: the rate limiter fails closed: whenever the write that initialises *)
(* or updates a client's bucket in the store fails, the request is aborted *)
(* with status 500 and no downstream stage (authentication, proxy or admin *)
(* handler) runs for it; a request is passed downstream only after its     *)
(* bucket write succeeded.                                                 *)
(***************************************************************************)
C40_LimiterFailsClosed ==
    /\ (/\ Entered("RateLimiter")
        /\ plReq.fault = "write"
        /\ ~plReq.exhausted
        /\ plReq.panicAt # "RateLimiter") =>
           /\ plPc = "done"
           /\ plResp = [status |-> 500, body |-> "Rate limiter error"]
           /\ plTrace[Len(plTrace)] = [stage |-> "RateLimiter", kind |-> "respond"]
           /\ ~\E s \in {"JWTAuth", "RoleAuth"} \cup Handlers : Entered(s)
    /\ Passed("RateLimiter") => plReq.fault # "write"

\* An administrator's request was stopped by the limiter, whose write failed.
C40_Witness ==
    /\ plPc = "done"
    /\ plReq.route = "admin"
    /\ plReq.token = "admin"
    /\ plReq.fault = "write"
    /\ Entered("RateLimiter")
    /\ plResp.status = 500

====
